---------------------------- MODULE Spec2Model ----------------------------
(***************************************************************************)
(* Model of the client-side table interaction layer of the Vulnerable Web  *)
(* Applications Directory: the filter/sort state store, the filtering and  *)
(* sorting engines, the controls binder with its debounced search bar, and *)
(* the advanced-search modal with its draft.                               *)
(*                                                                         *)
(* Strings are sequences of one-character strings.  JavaScript values that *)
(* may be null, a number or a string are records [k, n]: k is the kind and *)
(* n the number carried by kinds "num" (a number) and "numstr" (a string   *)
(* of digits).                                                             *)
(***************************************************************************)
EXTENDS Integers, Sequences, FiniteSets, TLC

(***************************************************************************)
(* JavaScript values                                                       *)
(***************************************************************************)
Null == [k |-> "null", n |-> 0]
Undefined == [k |-> "undefined", n |-> 0]
EmptyString == [k |-> "empty", n |-> 0]
NoneString == [k |-> "none", n |-> 0]
TextString == [k |-> "text", n |-> 0]
Num(i) == [k |-> "num", n |-> i]
NumStr(i) == [k |-> "numstr", n |-> i]

(***************************************************************************)
(* Strings                                                                 *)
(***************************************************************************)
Lower(ch) == IF ch = "A" THEN "a" ELSE IF ch = "B" THEN "b" ELSE IF ch = "P" THEN "p" ELSE ch

ToLowerCase(s) == [i \in 1..Len(s) |-> Lower(s[i])]

\* values.map(value => value.toLowerCase())
ToLowerCase2(arr) == [i \in 1..Len(arr) |-> ToLowerCase(arr[i])]

RECURSIVE TrimStart(_)
TrimStart(s) == IF s # <<>> /\ Head(s) = " " THEN TrimStart(Tail(s)) ELSE s

RECURSIVE TrimEnd(_)
TrimEnd(s) == IF s # <<>> /\ s[Len(s)] = " " THEN TrimEnd(SubSeq(s, 1, Len(s) - 1)) ELSE s

Trim(s) == TrimEnd(TrimStart(s))

\* String.prototype.includes
Includes(text, q) == \E i \in 0..(Len(text) - Len(q)) : SubSeq(text, i + 1, i + Len(q)) = q

\* Array.prototype.includes
ArrayIncludes(arr, v) == \E i \in 1..Len(arr) : arr[i] = v

\* String.prototype.split
RECURSIVE SplitFrom(_, _, _)
SplitFrom(s, sep, cur) ==
    IF s = <<>> THEN <<cur>>
    ELSE IF Head(s) = sep THEN <<cur>> \o SplitFrom(Tail(s), sep, <<>>)
    ELSE SplitFrom(Tail(s), sep, Append(cur, Head(s)))

Split(s, sep) == SplitFrom(s, sep, <<>>)

(***************************************************************************)
(* Utility layer                                                           *)
(***************************************************************************)
\* A raw list is [isArray, items]; every item is a string.
normalizeList(values) ==
    IF ~values.isArray THEN <<>>
    ELSE SelectSeq([i \in 1..Len(values.items) |-> Trim(values.items[i])], LAMBDA v : v # <<>>)

\* A faulty variant of normalizeNumber: a value that is no number is kept.
normalizeNumberKeepText(value) ==
    IF value.k \in {"null", "undefined", "empty"} THEN Null
    ELSE IF value.k \in {"num", "numstr"} THEN Num(value.n)
    ELSE value

normalizeNumber(value) ==
    IF value.k \in {"null", "undefined", "empty"} THEN Null
    ELSE IF value.k \in {"num", "numstr"} THEN Num(value.n)
    ELSE Null

parseFilterList(value) ==
    IF value = <<>> THEN <<>>
    ELSE LET parts == Split(value, "|")
         IN SelectSeq([i \in 1..Len(parts) |-> ToLowerCase(Trim(parts[i]))], LAMBDA v : v # <<>>)

hasActiveFilters(f) ==
    \/ f.query # <<>>
    \/ f.techs # <<>>
    \/ f.refs # <<>>
    \/ f.stars # Null
    \/ f.yearFrom # Null
    \/ f.yearTo # Null

getDefaultFilters ==
    [query |-> <<>>, techs |-> <<>>, refs |-> <<>>, stars |-> Null,
     yearFrom |-> Null, yearTo |-> Null, techMatch |-> "or", refMatch |-> "or"]

(***************************************************************************)
(* The page: collections, their rows and their sortable headers            *)
(***************************************************************************)
Collections == {"online", "offline"}

\* Every table wrapper of the site: the collections and the pick of the
\* day, which initFilteringSorting leaves alone.
Wrappers == Collections \cup {"aotd"}

\* data-* attributes: Absent, a string of digits, or a different string.
Absent == [k |-> "absent", n |-> 0]

\* The rows of the markup: for each its text content, its data-filter-*
\* attributes, and per sortable column the cell's text and data-sort-value-*.
RowData ==
    << [text |-> <<"A", "l">>, tech |-> <<"p", "|", " ", "j">>, refs |-> <<"g">>,
        stars |-> NumStr(5), year |-> NumStr(2020),
        name |-> <<"a">>, author |-> <<"B">>, note |-> <<"b">>, numeric |-> NumStr(5), date |-> NumStr(3)],
       [text |-> <<"b", "e">>, tech |-> <<"P">>, refs |-> <<>>,
        stars |-> Absent, year |-> NumStr(2021),
        name |-> <<"b">>, author |-> <<"a">>, note |-> <<"a">>, numeric |-> Absent, date |-> Absent],
       [text |-> <<"g", "a">>, tech |-> <<"j">>, refs |-> <<"g", "|", "d">>,
        stars |-> NumStr(12), year |-> NumStr(2020),
        name |-> <<"g">>, author |-> <<"b">>, note |-> <<"a">>, numeric |-> NumStr(12), date |-> NumStr(1)],
       [text |-> <<"d">>, tech |-> <<>>, refs |-> <<"d">>,
        stars |-> NumStr(0), year |-> Absent,
        name |-> <<"a">>, author |-> <<"a">>, note |-> <<"d">>, numeric |-> NumStr(0), date |-> NumStr(3)],
       [text |-> <<"n", "o">>, tech |-> <<>>, refs |-> <<>>,
        stars |-> NumStr(7), year |-> NumStr(2019),
        name |-> <<"n">>, author |-> <<"o">>, note |-> <<"n">>, numeric |-> NumStr(7), date |-> TextString] >>

\* The rows of a collection table as generated.  The last row of RowData,
\* whose data-sort-value-date does not parse, is only in the tables of
\* TwoRows.
RowIds == 1..4

\* state.sort.columnIndex when no column is sorted (null).
NullIndex == -1

\* th.sortable headers by data-column: name and whether it has class dual-sort.
Headers ==
    [i \in {0, 1, 4} |->
        IF i = 0 THEN [name |-> "App. URL", dual |-> TRUE]
        ELSE IF i = 1 THEN [name |-> "Author", dual |-> FALSE]
        ELSE [name |-> "Note(s)", dual |-> TRUE]]

HeaderIds == DOMAIN Headers

\* parseInt(attr || fallback, 10): [nan, n]
parseInt(attr) ==
    IF attr.k = "numstr" THEN [nan |-> FALSE, n |-> attr.n] ELSE [nan |-> TRUE, n |-> 0]

(***************************************************************************)
(* Filtering engine                                                        *)
(***************************************************************************)
Pill(type, value, lo, hi) == [type |-> type, value |-> value, lo |-> lo, hi |-> hi]

Min(a, b) == IF a <= b THEN a ELSE b
Max(a, b) == IF a >= b THEN a ELSE b

buildPills(filters) ==
    (IF filters.query # <<>> THEN <<Pill("query", filters.query, 0, 0)>> ELSE <<>>)
    \o [i \in 1..Len(filters.techs) |-> Pill("tech", filters.techs[i], 0, 0)]
    \o [i \in 1..Len(filters.refs) |-> Pill("refs", filters.refs[i], 0, 0)]
    \o (IF filters.stars # Null
        THEN IF filters.stars = NoneString
             THEN <<Pill("stars", <<"n", "o", "n", "e">>, 0, 0)>>
             ELSE <<Pill("stars", <<>>, filters.stars.n, filters.stars.n)>>
        ELSE <<>>)
    \o (IF filters.yearFrom # Null
        THEN IF filters.yearTo # Null /\ filters.yearTo # filters.yearFrom
             THEN <<Pill("year", <<>>, Min(filters.yearFrom.n, filters.yearTo.n),
                                        Max(filters.yearFrom.n, filters.yearTo.n))>>
             ELSE <<Pill("year", <<>>, filters.yearFrom.n, filters.yearFrom.n)>>
        ELSE <<>>)

\* What the loop of applyFilters reads from each row: getLowerText(row),
\* parseFilterList of data-filter-tech and data-filter-refs, parseInt of
\* data-filter-stars || '0' and of data-filter-year || ''.
RowFacts ==
    [i \in DOMAIN RowData |->
        [text |-> ToLowerCase(Trim(RowData[i].text)),
         techs |-> parseFilterList(RowData[i].tech),
         refs |-> parseFilterList(RowData[i].refs),
         stars |-> parseInt(IF RowData[i].stars = Absent THEN NumStr(0) ELSE RowData[i].stars),
         year |-> parseInt(RowData[i].year)]]

\* A faulty variant of RowMatches: a row passes the technology group as soon
\* as it carries one of the tags, whatever the match mode.
RowMatchesAnyTech(row, filters) ==
    LET query == ToLowerCase(Trim(filters.query))
        techs == ToLowerCase2(filters.techs)
        refs == ToLowerCase2(filters.refs)
        stars == filters.stars
        yearFrom == filters.yearFrom
        yearTo == filters.yearTo
        refsAnd == filters.refMatch = "and"
        m1 == IF query # <<>> THEN Includes(row.text, query) ELSE TRUE
        m2 == IF m1 /\ techs # <<>>
              THEN \E i \in 1..Len(techs) : ArrayIncludes(row.techs, techs[i])
              ELSE m1
        m3 == IF m2 /\ refs # <<>>
              THEN IF refsAnd
                   THEN \A i \in 1..Len(refs) : ArrayIncludes(row.refs, refs[i])
                   ELSE \E i \in 1..Len(refs) : ArrayIncludes(row.refs, refs[i])
              ELSE m2
        m4 == IF m3 /\ stars # Null
              THEN IF stars = NoneString
                   THEN ~row.stars.nan /\ row.stars.n < 1
                   ELSE ~row.stars.nan /\ row.stars.n >= stars.n
              ELSE m3
        m5 == IF m4 /\ yearFrom # Null
              THEN IF row.year.nan \/ row.year.n = 0 THEN FALSE
                   ELSE IF yearTo # Null
                        THEN /\ row.year.n >= Min(yearFrom.n, yearTo.n)
                             /\ row.year.n <= Max(yearFrom.n, yearTo.n)
                        ELSE row.year.n = yearFrom.n
              ELSE m4
    IN m5

\* A faulty variant of RowMatches: a row with exactly the threshold of stars
\* does not pass.
RowMatchesAboveStars(row, filters) ==
    LET query == ToLowerCase(Trim(filters.query))
        techs == ToLowerCase2(filters.techs)
        refs == ToLowerCase2(filters.refs)
        stars == filters.stars
        yearFrom == filters.yearFrom
        yearTo == filters.yearTo
        techAnd == filters.techMatch = "and"
        refsAnd == filters.refMatch = "and"
        m1 == IF query # <<>> THEN Includes(row.text, query) ELSE TRUE
        rowTechs == row.techs
        m2 == IF m1 /\ techs # <<>>
              THEN IF techAnd
                   THEN \A i \in 1..Len(techs) : ArrayIncludes(rowTechs, techs[i])
                   ELSE \E i \in 1..Len(techs) : ArrayIncludes(rowTechs, techs[i])
              ELSE m1
        rowRefs == row.refs
        m3 == IF m2 /\ refs # <<>>
              THEN IF refsAnd
                   THEN \A i \in 1..Len(refs) : ArrayIncludes(rowRefs, refs[i])
                   ELSE \E i \in 1..Len(refs) : ArrayIncludes(rowRefs, refs[i])
              ELSE m2
        rowStars == row.stars
        m4 == IF m3 /\ stars # Null
              THEN IF stars = NoneString
                   THEN ~rowStars.nan /\ rowStars.n < 1
                   ELSE ~rowStars.nan /\ rowStars.n > stars.n
              ELSE m3
        rowYear == row.year
        m5 == IF m4 /\ yearFrom # Null
              THEN IF rowYear.nan \/ rowYear.n = 0 THEN FALSE
                   ELSE IF yearTo # Null
                        THEN /\ rowYear.n >= Min(yearFrom.n, yearTo.n)
                             /\ rowYear.n <= Max(yearFrom.n, yearTo.n)
                        ELSE rowYear.n = yearFrom.n
              ELSE m4
    IN m5

\* A faulty variant of RowMatches: the bounds of a year range are taken in
\* the order given.
RowMatchesFromTo(row, filters) ==
    LET query == ToLowerCase(Trim(filters.query))
        techs == ToLowerCase2(filters.techs)
        refs == ToLowerCase2(filters.refs)
        stars == filters.stars
        yearFrom == filters.yearFrom
        yearTo == filters.yearTo
        techAnd == filters.techMatch = "and"
        refsAnd == filters.refMatch = "and"
        m1 == IF query # <<>> THEN Includes(row.text, query) ELSE TRUE
        rowTechs == row.techs
        m2 == IF m1 /\ techs # <<>>
              THEN IF techAnd
                   THEN \A i \in 1..Len(techs) : ArrayIncludes(rowTechs, techs[i])
                   ELSE \E i \in 1..Len(techs) : ArrayIncludes(rowTechs, techs[i])
              ELSE m1
        rowRefs == row.refs
        m3 == IF m2 /\ refs # <<>>
              THEN IF refsAnd
                   THEN \A i \in 1..Len(refs) : ArrayIncludes(rowRefs, refs[i])
                   ELSE \E i \in 1..Len(refs) : ArrayIncludes(rowRefs, refs[i])
              ELSE m2
        rowStars == row.stars
        m4 == IF m3 /\ stars # Null
              THEN IF stars = NoneString
                   THEN ~rowStars.nan /\ rowStars.n < 1
                   ELSE ~rowStars.nan /\ rowStars.n >= stars.n
              ELSE m3
        rowYear == row.year
        m5 == IF m4 /\ yearFrom # Null
              THEN IF rowYear.nan \/ rowYear.n = 0 THEN FALSE
                   ELSE IF yearTo # Null
                        THEN /\ rowYear.n >= yearFrom.n
                             /\ rowYear.n <= yearTo.n
                        ELSE rowYear.n = yearFrom.n
              ELSE m4
    IN m5

\* The body of the rows.forEach loop of applyFilters: whether the row matches.
RowMatches(row, filters) ==
    LET query == ToLowerCase(Trim(filters.query))
        techs == ToLowerCase2(filters.techs)
        refs == ToLowerCase2(filters.refs)
        stars == filters.stars
        yearFrom == filters.yearFrom
        yearTo == filters.yearTo
        techAnd == filters.techMatch = "and"
        refsAnd == filters.refMatch = "and"
        m1 == IF query # <<>> THEN Includes(row.text, query) ELSE TRUE
        rowTechs == row.techs
        m2 == IF m1 /\ techs # <<>>
              THEN IF techAnd
                   THEN \A i \in 1..Len(techs) : ArrayIncludes(rowTechs, techs[i])
                   ELSE \E i \in 1..Len(techs) : ArrayIncludes(rowTechs, techs[i])
              ELSE m1
        rowRefs == row.refs
        m3 == IF m2 /\ refs # <<>>
              THEN IF refsAnd
                   THEN \A i \in 1..Len(refs) : ArrayIncludes(rowRefs, refs[i])
                   ELSE \E i \in 1..Len(refs) : ArrayIncludes(rowRefs, refs[i])
              ELSE m2
        rowStars == row.stars
        m4 == IF m3 /\ stars # Null
              THEN IF stars = NoneString
                   THEN ~rowStars.nan /\ rowStars.n < 1
                   ELSE ~rowStars.nan /\ rowStars.n >= stars.n
              ELSE m3
        rowYear == row.year
        m5 == IF m4 /\ yearFrom # Null
              THEN IF rowYear.nan \/ rowYear.n = 0 THEN FALSE
                   ELSE IF yearTo # Null
                        THEN /\ rowYear.n >= Min(yearFrom.n, yearTo.n)
                             /\ rowYear.n <= Max(yearFrom.n, yearTo.n)
                        ELSE rowYear.n = yearFrom.n
              ELSE m4
    IN m5

\* row.classList.toggle('filtered-out', !matches) over the rows of the table
FilterRows(tbl, filters) ==
    [i \in 1..Len(tbl) |-> [tbl[i] EXCEPT !.filteredOut = ~RowMatches(RowFacts[tbl[i].id], filters)]]

\* A faulty variant of CountVisible: every row is counted.
CountEveryRow(tbl) == Len(tbl)

\* visibleCount as the loop of applyFilters leaves it.
CountVisible(tbl) == Cardinality({i \in 1..Len(tbl) : ~tbl[i].filteredOut})

\* A partial update: keys is the set of property names present in the object.
FilterKeys == {"query", "techs", "refs", "stars", "yearFrom", "yearTo", "techMatch", "refMatch"}

\* A faulty variant of updateFiltersFields: the technology tags of the update
\* are added to the stored ones instead of replacing them.
updateFiltersFieldsAppend(filters, updates) ==
    LET f1 == IF "query" \in updates.keys
              THEN [filters EXCEPT !.query =
                        IF updates.query.k \in {"null", "undefined"} THEN <<>> ELSE Trim(updates.query.s)]
              ELSE filters
        f2 == IF "techs" \in updates.keys
              THEN [f1 EXCEPT !.techs = f1.techs \o normalizeList(updates.techs)] ELSE f1
        f3 == IF "refs" \in updates.keys THEN [f2 EXCEPT !.refs = normalizeList(updates.refs)] ELSE f2
        f4 == IF "stars" \in updates.keys
              THEN [f3 EXCEPT !.stars = IF updates.stars = NoneString THEN NoneString
                                        ELSE normalizeNumber(updates.stars)]
              ELSE f3
        f5 == IF "yearFrom" \in updates.keys
              THEN [f4 EXCEPT !.yearFrom = normalizeNumber(updates.yearFrom)] ELSE f4
        f6 == IF "yearTo" \in updates.keys
              THEN [f5 EXCEPT !.yearTo = normalizeNumber(updates.yearTo)] ELSE f5
        f7 == IF "techMatch" \in updates.keys
              THEN [f6 EXCEPT !.techMatch = IF updates.techMatch = "and" THEN "and" ELSE "or"] ELSE f6
        f8 == IF "refMatch" \in updates.keys
              THEN [f7 EXCEPT !.refMatch = IF updates.refMatch = "and" THEN "and" ELSE "or"] ELSE f7
    IN IF f8.yearFrom = Null THEN [f8 EXCEPT !.yearTo = Null]
       ELSE IF "yearFrom" \in updates.keys /\ "yearTo" \notin updates.keys
            THEN [f8 EXCEPT !.yearTo = f8.yearFrom]
            ELSE f8

\* A faulty variant of updateFiltersFields: a new technology list also
\* resets the technology match mode.
updateFiltersFieldsResetMatch(filters, updates) ==
    LET f1 == IF "query" \in updates.keys
              THEN [filters EXCEPT !.query =
                        IF updates.query.k \in {"null", "undefined"} THEN <<>> ELSE Trim(updates.query.s)]
              ELSE filters
        f2 == IF "techs" \in updates.keys THEN [f1 EXCEPT !.techs = normalizeList(updates.techs), !.techMatch = "or"] ELSE f1
        f3 == IF "refs" \in updates.keys THEN [f2 EXCEPT !.refs = normalizeList(updates.refs)] ELSE f2
        f4 == IF "stars" \in updates.keys
              THEN [f3 EXCEPT !.stars = IF updates.stars = NoneString THEN NoneString
                                        ELSE normalizeNumber(updates.stars)]
              ELSE f3
        f5 == IF "yearFrom" \in updates.keys
              THEN [f4 EXCEPT !.yearFrom = normalizeNumber(updates.yearFrom)] ELSE f4
        f6 == IF "yearTo" \in updates.keys
              THEN [f5 EXCEPT !.yearTo = normalizeNumber(updates.yearTo)] ELSE f5
        f7 == IF "techMatch" \in updates.keys
              THEN [f6 EXCEPT !.techMatch = IF updates.techMatch = "and" THEN "and" ELSE "or"] ELSE f6
        f8 == IF "refMatch" \in updates.keys
              THEN [f7 EXCEPT !.refMatch = IF updates.refMatch = "and" THEN "and" ELSE "or"] ELSE f7
    IN IF f8.yearFrom = Null THEN [f8 EXCEPT !.yearTo = Null]
       ELSE IF "yearFrom" \in updates.keys /\ "yearTo" \notin updates.keys
            THEN [f8 EXCEPT !.yearTo = f8.yearFrom]
            ELSE f8

\* The field assignments of updateFilters, before applyFilters is called.
updateFiltersFields(filters, updates) ==
    LET f1 == IF "query" \in updates.keys
              THEN [filters EXCEPT !.query =
                        IF updates.query.k \in {"null", "undefined"} THEN <<>> ELSE Trim(updates.query.s)]
              ELSE filters
        f2 == IF "techs" \in updates.keys THEN [f1 EXCEPT !.techs = normalizeList(updates.techs)] ELSE f1
        f3 == IF "refs" \in updates.keys THEN [f2 EXCEPT !.refs = normalizeList(updates.refs)] ELSE f2
        f4 == IF "stars" \in updates.keys
              THEN [f3 EXCEPT !.stars = IF updates.stars = NoneString THEN NoneString
                                        ELSE normalizeNumber(updates.stars)]
              ELSE f3
        f5 == IF "yearFrom" \in updates.keys
              THEN [f4 EXCEPT !.yearFrom = normalizeNumber(updates.yearFrom)] ELSE f4
        f6 == IF "yearTo" \in updates.keys
              THEN [f5 EXCEPT !.yearTo = normalizeNumber(updates.yearTo)] ELSE f5
        f7 == IF "techMatch" \in updates.keys
              THEN [f6 EXCEPT !.techMatch = IF updates.techMatch = "and" THEN "and" ELSE "or"] ELSE f6
        f8 == IF "refMatch" \in updates.keys
              THEN [f7 EXCEPT !.refMatch = IF updates.refMatch = "and" THEN "and" ELSE "or"] ELSE f7
    IN IF f8.yearFrom = Null THEN [f8 EXCEPT !.yearTo = Null]
       ELSE IF "yearFrom" \in updates.keys /\ "yearTo" \notin updates.keys
            THEN [f8 EXCEPT !.yearTo = f8.yearFrom]
            ELSE f8

(***************************************************************************)
(* Sorting engine                                                          *)
(***************************************************************************)
\* Collation rank of a letter, case ignored.
Primary(ch) ==
    LET l == Lower(ch)
    IN IF l = " " THEN 0 ELSE IF l = "a" THEN 1 ELSE IF l = "b" THEN 2 ELSE IF l = "d" THEN 3
       ELSE IF l = "e" THEN 4 ELSE IF l = "g" THEN 5 ELSE IF l = "j" THEN 6 ELSE IF l = "l" THEN 7
       ELSE IF l = "n" THEN 8 ELSE IF l = "o" THEN 9 ELSE 10

\* Lower case sorts before upper case when the letters are the same.
Tertiary(ch) == IF Lower(ch) = ch THEN 0 ELSE 1

RECURSIVE LexCompare(_, _, _)
LexCompare(a, b, level) ==
    IF a = <<>> /\ b = <<>> THEN 0
    ELSE IF a = <<>> THEN -1
    ELSE IF b = <<>> THEN 1
    ELSE IF (IF level = "primary" THEN Primary(Head(a)) ELSE Tertiary(Head(a)))
            < (IF level = "primary" THEN Primary(Head(b)) ELSE Tertiary(Head(b))) THEN -1
    ELSE IF (IF level = "primary" THEN Primary(Head(a)) ELSE Tertiary(Head(a)))
            > (IF level = "primary" THEN Primary(Head(b)) ELSE Tertiary(Head(b))) THEN 1
    ELSE LexCompare(Tail(a), Tail(b), level)

\* String.prototype.localeCompare
localeCompare(a, b) ==
    LET p == LexCompare(a, b, "primary")
    IN IF p # 0 THEN p ELSE LexCompare(a, b, "tertiary")

getLowerText(text) == ToLowerCase(Trim(text))

\* new Date(value) - 0: the time value of a date attribute; '' is new Date(0).
DateValue(attr) ==
    IF attr = Absent THEN [nan |-> FALSE, n |-> 0]
    ELSE IF attr.k = "numstr" THEN [nan |-> FALSE, n |-> attr.n]
    ELSE [nan |-> TRUE, n |-> 0]

\* a - b on numbers; a NaN result is treated by Array.prototype.sort as +0.
Minus(a, b) == IF a.nan \/ b.nan THEN 0 ELSE a.n - b.n

\* A faulty variant of SortCompare: the numeric mode ignores the direction.
SortCompareUndirected(a, b, columnIndex, direction, sortMode) ==
    LET isDualSort == Headers[columnIndex].dual
        ra == RowData[a.id]
        rb == RowData[b.id]
    IN IF isDualSort /\ sortMode = "date"
       THEN IF direction = "asc" THEN Minus(DateValue(ra.date), DateValue(rb.date))
            ELSE Minus(DateValue(rb.date), DateValue(ra.date))
       ELSE IF isDualSort /\ sortMode = "numeric"
       THEN LET numA == parseInt(IF ra.numeric = Absent THEN NumStr(0) ELSE ra.numeric)
                numB == parseInt(IF rb.numeric = Absent THEN NumStr(0) ELSE rb.numeric)
            IN Minus(numA, numB)
       ELSE IF isDualSort /\ sortMode = "text"
       THEN LET valueA == IF columnIndex = 0 THEN ra.name ELSE ra.note
                valueB == IF columnIndex = 0 THEN rb.name ELSE rb.note
            IN IF direction = "asc" THEN localeCompare(valueA, valueB) ELSE localeCompare(valueB, valueA)
       ELSE LET textA == getLowerText(ra.author)
                textB == getLowerText(rb.author)
            IN IF direction = "asc" THEN localeCompare(textA, textB) ELSE localeCompare(textB, textA)

\* The comparator of sortTable applied to rows a and b.
SortCompare(a, b, columnIndex, direction, sortMode) ==
    LET isDualSort == Headers[columnIndex].dual
        ra == RowData[a.id]
        rb == RowData[b.id]
    IN IF isDualSort /\ sortMode = "date"
       THEN IF direction = "asc" THEN Minus(DateValue(ra.date), DateValue(rb.date))
            ELSE Minus(DateValue(rb.date), DateValue(ra.date))
       ELSE IF isDualSort /\ sortMode = "numeric"
       THEN LET numA == parseInt(IF ra.numeric = Absent THEN NumStr(0) ELSE ra.numeric)
                numB == parseInt(IF rb.numeric = Absent THEN NumStr(0) ELSE rb.numeric)
            IN IF direction = "asc" THEN Minus(numA, numB) ELSE Minus(numB, numA)
       ELSE IF isDualSort /\ sortMode = "text"
       THEN LET valueA == IF columnIndex = 0 THEN ra.name ELSE ra.note
                valueB == IF columnIndex = 0 THEN rb.name ELSE rb.note
            IN IF direction = "asc" THEN localeCompare(valueA, valueB) ELSE localeCompare(valueB, valueA)
       ELSE LET textA == getLowerText(ra.author)
                textB == getLowerText(rb.author)
            IN IF direction = "asc" THEN localeCompare(textA, textB) ELSE localeCompare(textB, textA)

\* Array.prototype.sort is stable: x goes before the first element that
\* compares greater than it.
RECURSIVE InsertSorted(_, _, _)
InsertSorted(x, sorted, by) ==
    IF sorted = <<>> THEN <<x>>
    ELSE IF SortCompare(Head(sorted), x, by.columnIndex, by.direction, by.sortMode) > 0
         THEN <<x>> \o sorted
         ELSE <<Head(sorted)>> \o InsertSorted(x, Tail(sorted), by)

RECURSIVE StableSort(_, _, _)
StableSort(rows, done, by) ==
    IF rows = <<>> THEN done
    ELSE StableSort(Tail(rows), InsertSorted(Head(rows), done, by), by)

\* rows.sort(...) followed by tbody.appendChild(row) in the sorted order
sortTable(tbl, columnIndex, direction, sortMode) ==
    StableSort(tbl, <<>>, [columnIndex |-> columnIndex, direction |-> direction, sortMode |-> sortMode])

\* Removes the current rows and appends a fresh clone of every snapshot row.
resetTableOrder(tbl, original) ==
    [i \in 1..Len(original) |-> [id |-> original[i].id, bound |-> FALSE,
                                 filteredOut |-> original[i].filteredOut]]

DefaultSort ==
    [columnIndex |-> NullIndex, direction |-> "null", mode |-> "text", clickCount |-> 0,
     columnName |-> "", displayLabel |-> ""]

getSortDisplayLabel(columnName, mode) ==
    IF columnName = "" THEN ""
    ELSE IF columnName = "App. URL" /\ mode = "numeric" THEN "Stars"
    ELSE IF columnName = "App. URL" /\ mode = "text" THEN "Name"
    ELSE IF columnName = "Note(s)" /\ mode = "date" THEN "Last Commit"
    ELSE IF columnName = "Note(s)" /\ mode = "text" THEN "Notes"
    ELSE columnName

(***************************************************************************)
(* Advanced search modal: draft and rendered inputs                        *)
(***************************************************************************)
\* Checkbox values of the multi-select panels, in document order.
MultiOptions(type) == IF type = "tech" THEN << <<"P">>, <<"j">> >> ELSE << <<"g">> >>

\* data-value of the options of the single-select panels.
SingleOptions(type) ==
    IF type = "stars" THEN {EmptyString, NoneString, NumStr(5)}
    ELSE IF type \in {"year-from", "year-to"} THEN {EmptyString, NumStr(2020), NumStr(2021)}
    ELSE {"and", "or"}

MultiTypes == {"tech", "refs"}
SingleTypes == {"stars", "year-from", "year-to", "tech-boolean", "refs-boolean"}

cloneFilters(source) ==
    [query |-> IF source.query # <<>> THEN source.query ELSE <<>>,
     techs |-> source.techs,
     refs |-> source.refs,
     stars |-> IF source.stars = Null THEN Null ELSE source.stars,
     yearFrom |-> IF source.yearFrom = Null THEN Null ELSE source.yearFrom,
     yearTo |-> IF source.yearTo = Null THEN Null ELSE source.yearTo,
     techMatch |-> IF source.techMatch = "and" THEN "and" ELSE "or",
     refMatch |-> IF source.refMatch = "and" THEN "and" ELSE "or"]

\* A faulty variant of updateDraftFields: clearing yearFrom leaves yearTo alone.
updateDraftFieldsKeepYearTo(draft, updates) ==
    LET d1 == IF "query" \in updates.keys
              THEN [draft EXCEPT !.query =
                        IF updates.query.k \in {"null", "undefined"} THEN <<>> ELSE Trim(updates.query.s)]
              ELSE draft
        d2 == IF "techs" \in updates.keys THEN [d1 EXCEPT !.techs = normalizeList(updates.techs)] ELSE d1
        d3 == IF "refs" \in updates.keys THEN [d2 EXCEPT !.refs = normalizeList(updates.refs)] ELSE d2
        d4 == IF "stars" \in updates.keys
              THEN [d3 EXCEPT !.stars = IF updates.stars = NoneString THEN NoneString
                                        ELSE normalizeNumber(updates.stars)]
              ELSE d3
        d5 == IF "yearFrom" \in updates.keys
              THEN LET yf == normalizeNumber(updates.yearFrom)
                   IN IF yf = Null THEN [d4 EXCEPT !.yearFrom = yf]
                      ELSE IF "yearTo" \notin updates.keys THEN [d4 EXCEPT !.yearFrom = yf, !.yearTo = yf]
                      ELSE [d4 EXCEPT !.yearFrom = yf]
              ELSE d4
        d6 == IF "yearTo" \in updates.keys
              THEN [d5 EXCEPT !.yearTo = normalizeNumber(updates.yearTo)] ELSE d5
        d7 == IF "techMatch" \in updates.keys
              THEN [d6 EXCEPT !.techMatch = IF updates.techMatch = "and" THEN "and" ELSE "or"] ELSE d6
        d8 == IF "refMatch" \in updates.keys
              THEN [d7 EXCEPT !.refMatch = IF updates.refMatch = "and" THEN "and" ELSE "or"] ELSE d7
    IN d8

\* The field assignments of updateDraft on the draft it found or cloned.
updateDraftFields(draft, updates) ==
    LET d1 == IF "query" \in updates.keys
              THEN [draft EXCEPT !.query =
                        IF updates.query.k \in {"null", "undefined"} THEN <<>> ELSE Trim(updates.query.s)]
              ELSE draft
        d2 == IF "techs" \in updates.keys THEN [d1 EXCEPT !.techs = normalizeList(updates.techs)] ELSE d1
        d3 == IF "refs" \in updates.keys THEN [d2 EXCEPT !.refs = normalizeList(updates.refs)] ELSE d2
        d4 == IF "stars" \in updates.keys
              THEN [d3 EXCEPT !.stars = IF updates.stars = NoneString THEN NoneString
                                        ELSE normalizeNumber(updates.stars)]
              ELSE d3
        d5 == IF "yearFrom" \in updates.keys
              THEN LET yf == normalizeNumber(updates.yearFrom)
                   IN IF yf = Null THEN [d4 EXCEPT !.yearFrom = yf, !.yearTo = Null]
                      ELSE IF "yearTo" \notin updates.keys THEN [d4 EXCEPT !.yearFrom = yf, !.yearTo = yf]
                      ELSE [d4 EXCEPT !.yearFrom = yf]
              ELSE d4
        d6 == IF "yearTo" \in updates.keys
              THEN [d5 EXCEPT !.yearTo = normalizeNumber(updates.yearTo)] ELSE d5
        d7 == IF "techMatch" \in updates.keys
              THEN [d6 EXCEPT !.techMatch = IF updates.techMatch = "and" THEN "and" ELSE "or"] ELSE d6
        d8 == IF "refMatch" \in updates.keys
              THEN [d7 EXCEPT !.refMatch = IF updates.refMatch = "and" THEN "and" ELSE "or"] ELSE d7
    IN IF d8.yearFrom = Null THEN [d8 EXCEPT !.yearTo = Null] ELSE d8

\* An update object: the properties named in keys carry a value.
NoUpdates ==
    [keys |-> {}, query |-> [k |-> "undefined", s |-> <<>>],
     techs |-> [isArray |-> FALSE, items |-> <<>>], refs |-> [isArray |-> FALSE, items |-> <<>>],
     stars |-> Undefined, yearFrom |-> Undefined, yearTo |-> Undefined,
     techMatch |-> "", refMatch |-> ""]

Str(s) == [k |-> "string", s |-> s]
Array(items) == [isArray |-> TRUE, items |-> items]

\* A faulty variant of AsUpdates: the stars property is left out.
AsUpdatesNoStars(f) ==
    [keys |-> FilterKeys \ {"stars"}, query |-> Str(f.query), techs |-> Array(f.techs),
     refs |-> Array(f.refs), stars |-> Undefined, yearFrom |-> f.yearFrom, yearTo |-> f.yearTo,
     techMatch |-> f.techMatch, refMatch |-> f.refMatch]

\* A filters object passed as the update object: every property is present.
AsUpdates(f) ==
    [keys |-> FilterKeys, query |-> Str(f.query), techs |-> Array(f.techs), refs |-> Array(f.refs),
     stars |-> f.stars, yearFrom |-> f.yearFrom, yearTo |-> f.yearTo,
     techMatch |-> f.techMatch, refMatch |-> f.refMatch]

\* The values of the checked options of a multi-select panel, in document order.
\* A faulty variant of getSelectedValues: every option counts as checked.
getSelectedValuesAll(checked, type) ==
    MultiOptions(type)

getSelectedValues(checked, type) ==
    SelectSeq(MultiOptions(type), LAMBDA v : v \in checked)

\* A faulty variant of RenderModal: the year-to trigger is never disabled.
RenderModalYearToEnabled(f) ==
    [searchInput |-> f.query,
     techChecked |-> {MultiOptions("tech")[i] : i \in
                        {j \in 1..Len(MultiOptions("tech")) :
                            ArrayIncludes(ToLowerCase2(f.techs), ToLowerCase(MultiOptions("tech")[j]))}},
     refsChecked |-> {MultiOptions("refs")[i] : i \in
                        {j \in 1..Len(MultiOptions("refs")) :
                            ArrayIncludes(ToLowerCase2(f.refs), ToLowerCase(MultiOptions("refs")[j]))}},
     yearToDisabled |-> FALSE,
     pills |-> buildPills(f)]

\* What syncModalInputs and renderModalPills leave in the modal for filters f.
RenderModal(f) ==
    [searchInput |-> f.query,
     techChecked |-> {MultiOptions("tech")[i] : i \in
                        {j \in 1..Len(MultiOptions("tech")) :
                            ArrayIncludes(ToLowerCase2(f.techs), ToLowerCase(MultiOptions("tech")[j]))}},
     refsChecked |-> {MultiOptions("refs")[i] : i \in
                        {j \in 1..Len(MultiOptions("refs")) :
                            ArrayIncludes(ToLowerCase2(f.refs), ToLowerCase(MultiOptions("refs")[j]))}},
     yearToDisabled |-> (f.yearFrom = Null),
     pills |-> buildPills(f)]

(***************************************************************************)
(* Elements that can hold the focus                                        *)
(***************************************************************************)
Element(el, type, i) == [el |-> el, type |-> type, i |-> i]

\* An element of the page outside the modal, such as the open button.
Page == Element("page", "", 0)
\* document.body: where the focus falls back to when the focused element is
\* removed from the document.
Body == Element("body", "", 0)
Dialog == Element("dialog", "", 0)
SearchInput == Element("search", "", 0)
ClearButton == Element("clear", "", 0)
Trigger(type) == Element("trigger", type, 0)
Panel(type) == Element("panel", type, 0)
\* The i-th focusable element of a panel: its checkboxes followed by the OK
\* control, or its options.
PanelItem(type, i) == Element("item", type, i)

IndexOf(seq, v) == CHOOSE i \in 1..Len(seq) : seq[i] = v

(***************************************************************************)
(* Elements that are bound once                                            *)
(***************************************************************************)
(***************************************************************************)
(* Scroll helper                                                           *)
(***************************************************************************)
\* Sizes of the table wrapper in three layouts: overflow to the right only,
\* overflow to the right and downwards, no overflow.
ScrollGeometry(layout) ==
    IF layout = "wide table"
    THEN [clientWidth |-> 100, scrollWidth |-> 200, clientHeight |-> 300, scrollHeight |-> 300]
    ELSE IF layout = "wide and long table"
    THEN [clientWidth |-> 100, scrollWidth |-> 200, clientHeight |-> 100, scrollHeight |-> 300]
    ELSE [clientWidth |-> 200, scrollWidth |-> 200, clientHeight |-> 300, scrollHeight |-> 300]

\* The target of a keydown is where the focus is: the wrapper itself, a
\* link or a text input inside it, a text input or a button outside it, or
\* the body.
\* target.closest(INTERACTIVE_SELECTOR)
isInteractiveTarget(target) == target \in {"link", "input", "outer input", "outer button"}

isEditableElement(el) == el \in {"input", "outer input"}

\* wrapper.contains(el)
InWrapper(el) == el \in {"wrapper", "link", "input"}

\* handleScrollKeys(wrap, e, allowVertical): the wrapper afterwards;
\* prevented tells that e.preventDefault() was called. The browser keeps an
\* assigned scroll position inside the scrollable range.
handleScrollKeys(s, key, shiftKey, allowVertical) ==
    LET g == ScrollGeometry(s.layout)
        hasX == g.scrollWidth > g.clientWidth + 1
        hasY == g.scrollHeight > g.clientHeight + 1
        line == 40
        pageX == Max(120, (g.clientWidth * 9) \div 10)
        pageY == Max(120, (g.clientHeight * 9) \div 10)
        done(left, top) == [s EXCEPT !.left = Max(0, Min(left, g.scrollWidth - g.clientWidth)),
                                     !.top = Max(0, Min(top, g.scrollHeight - g.clientHeight)),
                                     !.prevented = TRUE]
    IN IF ~hasX /\ ~hasY THEN s
       ELSE IF key = "ArrowLeft" THEN (IF hasX THEN done(s.left - line, s.top) ELSE s)
       ELSE IF key = "ArrowRight" THEN (IF hasX THEN done(s.left + line, s.top) ELSE s)
       ELSE IF key = "Home" THEN (IF hasX THEN done(0, s.top) ELSE s)
       ELSE IF key = "End" THEN (IF hasX THEN done(g.scrollWidth, s.top) ELSE s)
       ELSE IF key = "PageUp"
            THEN IF shiftKey /\ hasX THEN done(s.left - pageX, s.top)
                 ELSE IF allowVertical /\ hasY THEN done(s.left, s.top - pageY)
                 ELSE s
       ELSE IF key = "PageDown"
            THEN IF shiftKey /\ hasX THEN done(s.left + pageX, s.top)
                 ELSE IF allowVertical /\ hasY THEN done(s.left, s.top + pageY)
                 ELSE s
       ELSE s

\* The elements that carry a marker in their dataset once they are bound:
\* the wrapper and the search input (filterInit), the clear button
\* (clearInit), the pill container (pillInit), the sortable headers
\* (sortInit), the modal and the open button (advancedInit).
Markers == {"wrapper", "filterInput", "clearButton", "pillContainer", "header", "modal", "openButton"}

\* The elements that listeners are attached to.
Listened == Markers \ {"wrapper"}

(***************************************************************************)
(* State                                                                   *)
(***************************************************************************)
VARIABLES
    filters,        \* state.filters of every collection
    table,          \* the row elements of the table, in document order
    originalRows,   \* state.originalRows: the clones taken at bind time
    visibleCount,   \* state.visibleCount
    pills,          \* the pills rendered in the page filter bar
    filterInput,    \* value of the page search input
    filterTimeout,  \* the pending debounce timer of the page search input
    sort,           \* state.sort
    ariaSort,       \* aria-sort of every sortable header
    modeIndicator,  \* text of .sort-mode-indicator of every sortable header
    drafts,         \* the drafts map of the advanced search
    modalOpen,      \* whether the modal carries the open class
    panels,         \* the popover panels that carry data-open
    modalView,      \* the modal's inputs and pills as last rendered
    inputTimers,    \* the pending debounce timer of the modal search input
    lastOp,         \* history: the handler that ran last
    openSnapshot,   \* history: the live filters when the modal was last opened
    clicks,         \* history: the header clicked last and how often in a row
    events,         \* history: number of user events so far
    bursts,         \* history: the input events of each search box since its timer last ran
    focus,          \* document.activeElement, as far as the modal of the collection is concerned
    dataset,        \* the elements that carry their "already initialized" marker
    listeners,      \* the number of listener sets attached to each element
    scroll          \* the table wrapper: hover, layout, scroll position, whether the last
                    \* event was prevented, and the variables of the pan handlers

vars == <<filters, table, originalRows, visibleCount, pills, filterInput, filterTimeout,
          sort, ariaSort, modeIndicator, drafts, modalOpen, panels, modalView, inputTimers,
          lastOp, openSnapshot, clicks, events, bursts, focus, dataset, listeners, scroll>>

pageVars == <<filters, table, visibleCount, pills, filterInput>>
sortVars == <<sort, ariaSort, modeIndicator, clicks>>
modalVars == <<drafts, modalOpen, panels, modalView, inputTimers, openSnapshot>>

\* Longest session explored, in user events.
MaxEvents == 5

\* What a handler was called on: the panel type or option kind, and a value.
OpArg(name, c, type, value) == [op |-> name, c |-> c, arg |-> [type |-> type, value |-> value]]

Op(name, c) == OpArg(name, c, "", <<>>)

\* A burst of input events: the value of the input at the last event, the
\* number of events (counted up to 2) and the number of times the timer ran
\* since the last event.
NoBurst == [value |-> <<>>, inputs |-> 0, commits |-> 0]

\* The burst after one more input event; pending tells that the timer of the
\* event before has not run yet.
Typed(burst, value, pending) ==
    [value |-> <<value>>,
     inputs |-> IF pending /\ burst.inputs > 0 THEN 2 ELSE 1,
     commits |-> 0]

\* The burst after its timer ran.
Committed(burst) == [burst EXCEPT !.commits = IF burst.commits < 2 THEN burst.commits + 1 ELSE 2]

IsOp(name, c) == lastOp.op = name /\ lastOp.c = c

\* No header clicked since the sort was last cleared from outside a header.
NoClicks == [header |-> NullIndex, count |-> 0, from |-> NullIndex]

\* Number of states a header cycles through.
CycleLength(h) == IF Headers[h].dual THEN 5 ELSE 3

\* The click history after one more click on header h.
Clicked(c, h) ==
    [header |-> h,
     count |-> IF clicks[c].header = h THEN (clicks[c].count + 1) % CycleLength(h) ELSE 1,
     from |-> sort[c].columnIndex]

Init ==
    /\ filters = [c \in Wrappers |-> getDefaultFilters]
    /\ table = [c \in Wrappers |->
                    [i \in RowIds |-> [id |-> i, bound |-> TRUE, filteredOut |-> FALSE]]]
    /\ originalRows = [c \in Wrappers |-> IF c \notin Collections THEN <<>>
                        ELSE [i \in RowIds |-> [id |-> i, filteredOut |-> FALSE]]]
    /\ visibleCount = [c \in Wrappers |-> IF c \in Collections THEN Cardinality(RowIds) ELSE 0]
    /\ pills = [c \in Wrappers |-> <<>>]
    /\ filterInput = [c \in Wrappers |-> <<>>]
    /\ filterTimeout = [c \in Wrappers |-> <<>>]
    /\ sort = [c \in Wrappers |-> DefaultSort]
    /\ ariaSort = [c \in Wrappers |-> [h \in HeaderIds |-> "none"]]
    /\ modeIndicator = [c \in Wrappers |-> [h \in HeaderIds |-> ""]]
    /\ drafts = [c \in Wrappers |-> <<>>]
    /\ modalOpen = [c \in Wrappers |-> FALSE]
    /\ panels = [c \in Wrappers |-> {}]
    /\ modalView = [c \in Wrappers |-> RenderModal(getDefaultFilters)]
    /\ inputTimers = [c \in Wrappers |-> <<>>]
    /\ lastOp = Op("init", "")
    /\ openSnapshot = [c \in Wrappers |-> getDefaultFilters]
    /\ clicks = [c \in Wrappers |-> NoClicks]
    /\ events = 0
    /\ bursts = [c \in Wrappers |-> [page |-> NoBurst, modal |-> NoBurst]]
    /\ focus = [c \in Wrappers |-> Page]
    /\ dataset = [c \in Wrappers |-> IF c \in Collections THEN Markers ELSE {}]
    /\ listeners = [c \in Wrappers |-> [el \in Listened |-> IF c \in Collections THEN 1 ELSE 0]]
    /\ scroll = [c \in Wrappers |->
                    [hovered |-> FALSE, layout |-> "wide table", left |-> 0, top |-> 0, prevented |-> FALSE,
                     isPanning |-> FALSE, pointerId |-> 0, startX |-> 0, startY |-> 0,
                     startLeft |-> 0, startTop |-> 0]]

\* The focus is on an open panel or inside it: a keydown passes the panel's
\* listener before the modal's.
InPanel(c) == focus[c].el \in {"panel", "item"} /\ focus[c].type \in panels[c]


\* While a modal is open the rest of the page is inert.
PageInteractive == \A c \in Collections : ~modalOpen[c]

\* A handler run by a user event, within the session length explored.
UserEvent(A) == /\ events < MaxEvents
                /\ events' = events + 1
                /\ A

\* A handler run by a timer.
TimerEvent(A) == A /\ UNCHANGED events

(***************************************************************************)
(* applyFilters: f are the filters and tbl the rows it finds; the modal is *)
(* re-rendered through the registered advancedSync callback unless a draft *)
(* exists while the modal is open.  next is f, evaluated once.             *)
(***************************************************************************)
\* applyFilters past its first line: the rows tbl of the wrapper are shown
\* or hidden, then the count, the search bar, the pills and the modal follow.
showMatches(c, next, tbl) ==
    /\ table' = [table EXCEPT ![c] = FilterRows(tbl, next)]
    /\ visibleCount' = [visibleCount EXCEPT ![c] = CountVisible(table'[c])]
    /\ filterInput' = [filterInput EXCEPT ![c] = next.query]
    /\ pills' = [pills EXCEPT ![c] = buildPills(next)]
    /\ modalView' = IF drafts[c] # <<>> /\ modalOpen[c] THEN modalView
                    ELSE [modalView EXCEPT ![c] = RenderModal(next)]

\* A faulty variant of applyFilters: the collections share one filters
\* object.
applyFiltersShared(c, f, tbl) ==
    \E next \in {f} :
        /\ filters' = [d \in Wrappers |-> next]
        /\ IF "wrapper" \in dataset[c]
           THEN showMatches(c, next, tbl)
           ELSE UNCHANGED <<table, visibleCount, filterInput, pills, modalView>>

\* The filters are written by the caller; a state without wrapper returns
\* at once.
applyFilters(c, f, tbl) ==
    \E next \in {f} :
        /\ filters' = [filters EXCEPT ![c] = next]
        /\ IF "wrapper" \in dataset[c]
           THEN showMatches(c, next, tbl)
           ELSE UNCHANGED <<table, visibleCount, filterInput, pills, modalView>>

\* A faulty variant of updateFilters: the filters are applied to the rows of
\* the bind-time snapshot, put back in their order.
updateFiltersOnSnapshot(c, updates) ==
    applyFilters(c, updateFiltersFields(filters[c], updates),
                 resetTableOrder(table[c], originalRows[c]))

\* updateFilters(collection, updates)

updateFilters(c, updates) ==
    applyFilters(c, updateFiltersFields(filters[c], updates), table[c])

\* A faulty variant of resetSortState: the headers keep their indicators.
resetSortStateKeepAria(c) ==
    /\ ariaSort' = ariaSort
    /\ modeIndicator' = [modeIndicator EXCEPT ![c] = [h \in HeaderIds |-> ""]]
    /\ sort' = [sort EXCEPT ![c] = DefaultSort]

\* resetSortState(state, true)
resetSortState(c) ==
    /\ ariaSort' = [ariaSort EXCEPT ![c] = [h \in HeaderIds |-> "none"]]
    /\ modeIndicator' = [modeIndicator EXCEPT ![c] = [h \in HeaderIds |-> ""]]
    /\ sort' = [sort EXCEPT ![c] = DefaultSort]

ResetOrder(c) ==
    IF "wrapper" \in dataset[c] /\ originalRows[c] # <<>>
    THEN resetTableOrder(table[c], originalRows[c]) ELSE table[c]

\* A faulty variant of clearAllFilters: the pending debounce timer is left
\* to run.
clearAllFiltersKeepTimer(c, resetSort) ==
    /\ UNCHANGED filterTimeout
    /\ IF resetSort
       THEN /\ resetSortState(c)
            /\ clicks' = [clicks EXCEPT ![c] = NoClicks]
            /\ applyFilters(c, getDefaultFilters, ResetOrder(c))
       ELSE /\ UNCHANGED sortVars
            /\ applyFilters(c, getDefaultFilters, table[c])

clearAllFilters(c, resetSort) ==
    /\ filterTimeout' = [filterTimeout EXCEPT ![c] = <<>>]
    /\ IF resetSort
       THEN /\ resetSortState(c)
            /\ clicks' = [clicks EXCEPT ![c] = NoClicks]
            /\ applyFilters(c, getDefaultFilters, ResetOrder(c))
       ELSE /\ UNCHANGED sortVars
            /\ applyFilters(c, getDefaultFilters, table[c])

(***************************************************************************)
(* Controls binder: search bar, clear button, pills, sortable headers      *)
(***************************************************************************)
\* Texts a visitor types into a search input.
TypedTexts == {<<"a">>, <<" ", "A">>, <<"d", " ">>}

\* A faulty variant of PageInput: the timer of the event before is not
\* cleared.
PageInputKeepTimers(c, value) ==
    /\ PageInteractive
    /\ filterInput' = [filterInput EXCEPT ![c] = value]
    /\ filterTimeout' = [filterTimeout EXCEPT ![c] = Append(filterTimeout[c], value)]
    /\ lastOp' = Op("pageInput", c)
    /\ bursts' = [bursts EXCEPT ![c].page = Typed(bursts[c].page, value, filterTimeout[c] # <<>>)]
    /\ UNCHANGED <<dataset, listeners, scroll>>
    /\ UNCHANGED focus
    /\ UNCHANGED <<filters, table, visibleCount, pills, originalRows>>
    /\ UNCHANGED sortVars
    /\ UNCHANGED modalVars

\* 'input' event of the page search bar: restarts the debounce timer.
PageInput(c, value) ==
    /\ PageInteractive
    /\ filterInput' = [filterInput EXCEPT ![c] = value]
    /\ filterTimeout' = [filterTimeout EXCEPT ![c] = <<value>>]
    /\ lastOp' = Op("pageInput", c)
    /\ bursts' = [bursts EXCEPT ![c].page = Typed(bursts[c].page, value, filterTimeout[c] # <<>>)]
    /\ UNCHANGED <<dataset, listeners, scroll>>
    /\ UNCHANGED focus
    /\ UNCHANGED <<filters, table, visibleCount, pills, originalRows>>
    /\ UNCHANGED sortVars
    /\ UNCHANGED modalVars

\* The debounce timer of the page search bar fires.
PageTimerFires(c) ==
    /\ filterTimeout[c] # <<>>
    /\ lastOp' = Op("pageTimer", c)
    /\ filterTimeout' = [filterTimeout EXCEPT ![c] = Tail(filterTimeout[c])]
    /\ bursts' = [bursts EXCEPT ![c].page = Committed(bursts[c].page)]
    /\ UNCHANGED <<dataset, listeners, scroll>>
    /\ UNCHANGED focus
    /\ updateFilters(c, [NoUpdates EXCEPT !.keys = {"query"}, !.query = Str(filterTimeout[c][1])])
    /\ UNCHANGED <<originalRows, drafts, modalOpen, panels, inputTimers, openSnapshot>>
    /\ UNCHANGED sortVars

\* Click on the clear button of the page filter bar.
ClearClick(c) ==
    /\ PageInteractive
    /\ clearAllFilters(c, TRUE)
    /\ lastOp' = Op("clearClick", c)
    /\ UNCHANGED bursts
    /\ UNCHANGED <<dataset, listeners, scroll>>
    /\ UNCHANGED focus
    /\ UNCHANGED <<originalRows, drafts, modalOpen, panels, inputTimers, openSnapshot>>

\* A faulty variant of PillUpdate: the pill of a tag empties the tag list.
PillUpdateWholeList(f, pill) ==
    IF pill.type = "query" THEN [NoUpdates EXCEPT !.keys = {"query"}, !.query = Str(<<>>)]
    ELSE IF pill.type = "tech" THEN [NoUpdates EXCEPT !.keys = {"techs"}, !.techs = Array(<<>>)]
    ELSE IF pill.type = "refs" THEN [NoUpdates EXCEPT !.keys = {"refs"}, !.refs = Array(<<>>)]
    ELSE IF pill.type = "stars" THEN [NoUpdates EXCEPT !.keys = {"stars"}, !.stars = Null]
    ELSE [NoUpdates EXCEPT !.keys = {"yearFrom", "yearTo"}, !.yearFrom = Null, !.yearTo = Null]

\* The update a click on a pill of the page filter bar passes to updateFilters.
PillUpdate(f, pill) ==
    IF pill.type = "query" THEN [NoUpdates EXCEPT !.keys = {"query"}, !.query = Str(<<>>)]
    ELSE IF pill.type = "tech"
    THEN [NoUpdates EXCEPT !.keys = {"techs"},
                           !.techs = Array(SelectSeq(f.techs, LAMBDA item : item # pill.value))]
    ELSE IF pill.type = "refs"
    THEN [NoUpdates EXCEPT !.keys = {"refs"},
                           !.refs = Array(SelectSeq(f.refs, LAMBDA item : item # pill.value))]
    ELSE IF pill.type = "stars" THEN [NoUpdates EXCEPT !.keys = {"stars"}, !.stars = Null]
    ELSE [NoUpdates EXCEPT !.keys = {"yearFrom", "yearTo"}, !.yearFrom = Null, !.yearTo = Null]

PagePillClick(c, i) ==
    /\ PageInteractive
    /\ i \in 1..Len(pills[c])
    /\ updateFilters(c, PillUpdate(filters[c], pills[c][i]))
    /\ lastOp' = OpArg("pagePill", c, pills[c][i].type, pills[c][i].value)
    /\ UNCHANGED bursts
    /\ UNCHANGED <<dataset, listeners, scroll>>
    /\ UNCHANGED focus
    /\ UNCHANGED <<originalRows, filterTimeout, drafts, modalOpen, panels, inputTimers, openSnapshot>>
    /\ UNCHANGED sortVars

\* A faulty variant of NextSort: a regular column goes from descending back
\* to ascending.
NextSortTwoState(sortState, columnIndex) ==
    LET isDualSort == Headers[columnIndex].dual
        columnName == Headers[columnIndex].name
        isAppUrlColumn == columnName = "App. URL"
        isNotesColumn == columnName = "Note(s)"
    IN IF sortState.columnIndex = columnIndex
       THEN LET count == sortState.clickCount + 1
                cyclePosition == count % 5
            IN IF isDualSort
               THEN IF cyclePosition = 1
                    THEN [direction |-> "asc", mode |-> IF isAppUrlColumn THEN "numeric" ELSE "date",
                          clickCount |-> count]
                    ELSE IF cyclePosition = 2
                    THEN [direction |-> "desc", mode |-> IF isAppUrlColumn THEN "numeric" ELSE "date",
                          clickCount |-> count]
                    ELSE IF cyclePosition = 3
                    THEN [direction |-> "asc", mode |-> "text", clickCount |-> count]
                    ELSE IF cyclePosition = 4
                    THEN [direction |-> "desc", mode |-> "text", clickCount |-> count]
                    ELSE [direction |-> "null", mode |-> "text", clickCount |-> 0]
               ELSE IF sortState.direction = "asc"
                    THEN [direction |-> "desc", mode |-> "text", clickCount |-> count]
                    ELSE IF sortState.direction = "desc"
                    THEN [direction |-> "asc", mode |-> "text", clickCount |-> count]
                    ELSE [direction |-> "asc", mode |-> "text", clickCount |-> count]
       ELSE [direction |-> "asc",
             mode |-> IF isDualSort /\ (isAppUrlColumn \/ isNotesColumn)
                      THEN (IF isAppUrlColumn THEN "numeric" ELSE "date")
                      ELSE "text",
             clickCount |-> 1]

\* The direction, mode and click count handleSort computes for a click.
NextSort(sortState, columnIndex) ==
    LET isDualSort == Headers[columnIndex].dual
        columnName == Headers[columnIndex].name
        isAppUrlColumn == columnName = "App. URL"
        isNotesColumn == columnName = "Note(s)"
    IN IF sortState.columnIndex = columnIndex
       THEN LET count == sortState.clickCount + 1
                cyclePosition == count % 5
            IN IF isDualSort
               THEN IF cyclePosition = 1
                    THEN [direction |-> "asc", mode |-> IF isAppUrlColumn THEN "numeric" ELSE "date",
                          clickCount |-> count]
                    ELSE IF cyclePosition = 2
                    THEN [direction |-> "desc", mode |-> IF isAppUrlColumn THEN "numeric" ELSE "date",
                          clickCount |-> count]
                    ELSE IF cyclePosition = 3
                    THEN [direction |-> "asc", mode |-> "text", clickCount |-> count]
                    ELSE IF cyclePosition = 4
                    THEN [direction |-> "desc", mode |-> "text", clickCount |-> count]
                    ELSE [direction |-> "null", mode |-> "text", clickCount |-> 0]
               ELSE IF sortState.direction = "asc"
                    THEN [direction |-> "desc", mode |-> "text", clickCount |-> count]
                    ELSE IF sortState.direction = "desc"
                    THEN [direction |-> "null", mode |-> "text", clickCount |-> count]
                    ELSE [direction |-> "asc", mode |-> "text", clickCount |-> count]
       ELSE [direction |-> "asc",
             mode |-> IF isDualSort /\ (isAppUrlColumn \/ isNotesColumn)
                      THEN (IF isAppUrlColumn THEN "numeric" ELSE "date")
                      ELSE "text",
             clickCount |-> 1]

ModeIndicatorText(columnIndex, newMode) ==
    IF ~Headers[columnIndex].dual THEN ""
    ELSE IF Headers[columnIndex].name = "App. URL"
    THEN (IF newMode = "numeric" THEN "(sorting by stars)" ELSE "(sorting by name)")
    ELSE IF Headers[columnIndex].name = "Note(s)"
    THEN (IF newMode = "date" THEN "(sorting by last commit)" ELSE "(sorting by notes)")
    ELSE ""

\* A faulty variant of handleSort: the indicators of the other headers are
\* left as they are.
handleSortKeepIndicators(c, columnIndex) ==
    LET new == NextSort(sort[c], columnIndex)
        isDualSort == Headers[columnIndex].dual
        columnName == Headers[columnIndex].name
    IN /\ PageInteractive
       /\ IF new.direction # "null"
          THEN /\ table' = [table EXCEPT ![c] = sortTable(table[c], columnIndex, new.direction, new.mode)]
               /\ ariaSort' = [ariaSort EXCEPT ![c][columnIndex] =
                      IF new.direction = "asc" THEN "ascending" ELSE "descending"]
               /\ modeIndicator' = [modeIndicator EXCEPT ![c] =
                      [h \in HeaderIds |-> IF h = columnIndex
                                           THEN ModeIndicatorText(columnIndex, new.mode) ELSE ""]]
               /\ sort' = [sort EXCEPT ![c] =
                      [columnIndex |-> columnIndex, direction |-> new.direction, mode |-> new.mode,
                       clickCount |-> new.clickCount, columnName |-> columnName,
                       displayLabel |-> IF isDualSort THEN getSortDisplayLabel(columnName, new.mode)
                                        ELSE columnName]]
               /\ UNCHANGED <<filters, visibleCount, pills, filterInput, modalView>>
          ELSE /\ resetSortState(c)
               /\ applyFilters(c, filters[c], ResetOrder(c))
       /\ clicks' = [clicks EXCEPT ![c] = Clicked(c, columnIndex)]
       /\ lastOp' = Op("handleSort", c)
       /\ UNCHANGED bursts
       /\ UNCHANGED <<dataset, listeners, scroll>>
       /\ UNCHANGED focus
       /\ UNCHANGED <<originalRows, filterTimeout, drafts, modalOpen, panels, inputTimers, openSnapshot>>

\* A faulty variant of handleSort: the reset of the cycle restores the
\* snapshot rows and does not filter them again.
handleSortNoRefilter(c, columnIndex) ==
    LET new == NextSort(sort[c], columnIndex)
        isDualSort == Headers[columnIndex].dual
        columnName == Headers[columnIndex].name
    IN /\ PageInteractive
       /\ IF new.direction # "null"
          THEN /\ table' = [table EXCEPT ![c] = sortTable(table[c], columnIndex, new.direction, new.mode)]
               /\ ariaSort' = [ariaSort EXCEPT ![c] =
                      [h \in HeaderIds |-> IF h = columnIndex
                                           THEN (IF new.direction = "asc" THEN "ascending" ELSE "descending")
                                           ELSE "none"]]
               /\ modeIndicator' = [modeIndicator EXCEPT ![c] =
                      [h \in HeaderIds |-> IF h = columnIndex
                                           THEN ModeIndicatorText(columnIndex, new.mode) ELSE ""]]
               /\ sort' = [sort EXCEPT ![c] =
                      [columnIndex |-> columnIndex, direction |-> new.direction, mode |-> new.mode,
                       clickCount |-> new.clickCount, columnName |-> columnName,
                       displayLabel |-> IF isDualSort THEN getSortDisplayLabel(columnName, new.mode)
                                        ELSE columnName]]
               /\ UNCHANGED <<filters, visibleCount, pills, filterInput, modalView>>
          ELSE /\ resetSortState(c)
               /\ table' = [table EXCEPT ![c] = ResetOrder(c)]
               /\ UNCHANGED <<filters, visibleCount, pills, filterInput, modalView>>
       /\ clicks' = [clicks EXCEPT ![c] = Clicked(c, columnIndex)]
       /\ lastOp' = Op("handleSort", c)
       /\ UNCHANGED bursts
       /\ UNCHANGED <<dataset, listeners, scroll>>
       /\ UNCHANGED focus
       /\ UNCHANGED <<originalRows, filterTimeout, drafts, modalOpen, panels, inputTimers, openSnapshot>>

\* Click (or Enter / Space) on a sortable header.
handleSort(c, columnIndex) ==
    LET new == NextSort(sort[c], columnIndex)
        isDualSort == Headers[columnIndex].dual
        columnName == Headers[columnIndex].name
    IN /\ PageInteractive
       /\ IF new.direction # "null"
          THEN /\ table' = [table EXCEPT ![c] = sortTable(table[c], columnIndex, new.direction, new.mode)]
               /\ ariaSort' = [ariaSort EXCEPT ![c] =
                      [h \in HeaderIds |-> IF h = columnIndex
                                           THEN (IF new.direction = "asc" THEN "ascending" ELSE "descending")
                                           ELSE "none"]]
               /\ modeIndicator' = [modeIndicator EXCEPT ![c] =
                      [h \in HeaderIds |-> IF h = columnIndex
                                           THEN ModeIndicatorText(columnIndex, new.mode) ELSE ""]]
               /\ sort' = [sort EXCEPT ![c] =
                      [columnIndex |-> columnIndex, direction |-> new.direction, mode |-> new.mode,
                       clickCount |-> new.clickCount, columnName |-> columnName,
                       displayLabel |-> IF isDualSort THEN getSortDisplayLabel(columnName, new.mode)
                                        ELSE columnName]]
               /\ UNCHANGED <<filters, visibleCount, pills, filterInput, modalView>>
          ELSE /\ resetSortState(c)
               /\ applyFilters(c, filters[c], ResetOrder(c))
       /\ clicks' = [clicks EXCEPT ![c] = Clicked(c, columnIndex)]
       /\ lastOp' = Op("handleSort", c)
       /\ UNCHANGED bursts
       /\ UNCHANGED <<dataset, listeners, scroll>>
       /\ UNCHANGED focus
       /\ UNCHANGED <<originalRows, filterTimeout, drafts, modalOpen, panels, inputTimers, openSnapshot>>

(***************************************************************************)
(* Advanced search modal: handlers                                         *)
(***************************************************************************)
\* updateDraft followed by applyDraftToModal: the draft is the stored one or
\* a clone of the live filters.
updateDraft(c, updates) ==
    LET draft == IF drafts[c] # <<>> THEN drafts[c][1] ELSE cloneFilters(filters[c])
        new == updateDraftFields(draft, updates)
    IN /\ drafts' = [drafts EXCEPT ![c] = <<new>>]
       /\ modalView' = [modalView EXCEPT ![c] = RenderModal(new)]

\* A faulty variant of OpenClick: a draft left over is kept.
OpenClickKeepDraft(c) ==
    /\ PageInteractive
    /\ drafts' = [d \in Wrappers |->
                    IF d = c THEN (IF drafts[c] # <<>> THEN drafts[c] ELSE <<cloneFilters(filters[c])>>)
                    ELSE IF modalOpen[d] THEN <<>> ELSE drafts[d]]
    /\ modalView' = [modalView EXCEPT ![c] = RenderModal(drafts'[c][1])]
    /\ modalOpen' = [d \in Wrappers |-> d = c]
    /\ panels' = [d \in Wrappers |-> IF d = c \/ modalOpen[d] THEN {} ELSE panels[d]]
    /\ openSnapshot' = [openSnapshot EXCEPT ![c] = filters[c]]
    /\ lastOp' = OpArg("open", c, IF drafts[c] # <<>> THEN "leftover" ELSE "", <<>>)
    /\ UNCHANGED bursts
    /\ UNCHANGED <<dataset, listeners, scroll>>
    /\ focus' = [focus EXCEPT ![c] = Dialog]
    /\ UNCHANGED <<originalRows, filterTimeout, inputTimers>>
    /\ UNCHANGED pageVars
    /\ UNCHANGED sortVars

\* Click on the open button of collection c.
OpenClick(c) ==
    /\ PageInteractive
    /\ drafts' = [d \in Wrappers |->
                    IF d = c THEN <<cloneFilters(filters[c])>>
                    ELSE IF modalOpen[d] THEN <<>> ELSE drafts[d]]
    /\ modalView' = [modalView EXCEPT ![c] = RenderModal(cloneFilters(filters[c]))]
    /\ modalOpen' = [d \in Wrappers |-> d = c]
    /\ panels' = [d \in Wrappers |-> IF d = c \/ modalOpen[d] THEN {} ELSE panels[d]]
    /\ openSnapshot' = [openSnapshot EXCEPT ![c] = filters[c]]
    /\ lastOp' = OpArg("open", c, IF drafts[c] # <<>> THEN "leftover" ELSE "", <<>>)
    /\ UNCHANGED bursts
    /\ UNCHANGED <<dataset, listeners, scroll>>
    /\ focus' = [focus EXCEPT ![c] = Dialog]
    /\ UNCHANGED <<originalRows, filterTimeout, inputTimers>>
    /\ UNCHANGED pageVars
    /\ UNCHANGED sortVars

\* 'input' event of the modal search box: restarts its debounce timer.
ModalInput(c, value) ==
    /\ modalOpen[c]
    /\ modalView' = [modalView EXCEPT ![c].searchInput = value]
    /\ inputTimers' = [inputTimers EXCEPT ![c] = <<value>>]
    /\ lastOp' = Op("modalInput", c)
    /\ bursts' = [bursts EXCEPT ![c].modal = Typed(bursts[c].modal, value, inputTimers[c] # <<>>)]
    /\ UNCHANGED <<dataset, listeners, scroll>>
    /\ focus' = [focus EXCEPT ![c] = SearchInput]
    /\ UNCHANGED <<originalRows, filterTimeout, drafts, modalOpen, panels, openSnapshot>>
    /\ UNCHANGED pageVars
    /\ UNCHANGED sortVars

\* The debounce timer of the modal search box fires.
ModalTimerFires(c) ==
    /\ inputTimers[c] # <<>>
    /\ lastOp' = Op("modalTimer", c)
    /\ inputTimers' = [inputTimers EXCEPT ![c] = Tail(inputTimers[c])]
    /\ bursts' = [bursts EXCEPT ![c].modal = Committed(bursts[c].modal)]
    /\ UNCHANGED <<dataset, listeners, scroll>>
    /\ focus' = [focus EXCEPT ![c] = IF focus[c].el = "pill" THEN Body ELSE focus[c]]
    /\ updateDraft(c, [NoUpdates EXCEPT !.keys = {"query"}, !.query = Str(inputTimers[c][1])])
    /\ UNCHANGED <<originalRows, filterTimeout, modalOpen, panels, openSnapshot>>
    /\ UNCHANGED pageVars
    /\ UNCHANGED sortVars

\* Click on the modal's Clear button: resetDraft, then the modal's click
\* handler closes the panels.
ModalClear(c) ==
    /\ modalOpen[c]
    /\ drafts' = [drafts EXCEPT ![c] = <<getDefaultFilters>>]
    /\ modalView' = [modalView EXCEPT ![c] = RenderModal(getDefaultFilters)]
    /\ panels' = [panels EXCEPT ![c] = {}]
    /\ lastOp' = Op("modalClear", c)
    /\ UNCHANGED bursts
    /\ UNCHANGED <<dataset, listeners, scroll>>
    /\ focus' = [focus EXCEPT ![c] = ClearButton]
    /\ UNCHANGED <<originalRows, filterTimeout, modalOpen, inputTimers, openSnapshot>>
    /\ UNCHANGED pageVars
    /\ UNCHANGED sortVars

\* Click on Accept: commitDraft, then closeModal.
Accept(c) ==
    /\ modalOpen[c]
    /\ IF drafts[c] # <<>>
       THEN updateFilters(c, AsUpdates(drafts[c][1]))
       ELSE UNCHANGED <<filters, table, visibleCount, pills, filterInput, modalView>>
    /\ drafts' = [drafts EXCEPT ![c] = <<>>]
    /\ modalOpen' = [modalOpen EXCEPT ![c] = FALSE]
    /\ panels' = [panels EXCEPT ![c] = {}]
    /\ lastOp' = Op("accept", c)
    /\ UNCHANGED bursts
    /\ UNCHANGED <<dataset, listeners, scroll>>
    /\ focus' = [focus EXCEPT ![c] = Page]
    /\ UNCHANGED <<originalRows, filterTimeout, inputTimers, openSnapshot>>
    /\ UNCHANGED sortVars

closeModalAndDiscard(c) ==
    /\ drafts' = [drafts EXCEPT ![c] = <<>>]
    /\ modalOpen' = [modalOpen EXCEPT ![c] = FALSE]
    /\ panels' = [panels EXCEPT ![c] = {}]

\* Click on an element with data-advanced-close (close button, backdrop).
CloseClick(c) ==
    /\ modalOpen[c]
    /\ closeModalAndDiscard(c)
    /\ lastOp' = Op("closeClick", c)
    /\ UNCHANGED bursts
    /\ UNCHANGED <<dataset, listeners, scroll>>
    /\ focus' = [focus EXCEPT ![c] = Page]
    /\ UNCHANGED <<originalRows, filterTimeout, modalView, inputTimers, openSnapshot>>
    /\ UNCHANGED pageVars
    /\ UNCHANGED sortVars

\* Escape pressed with the focus in the modal outside any open panel: it
\* reaches only the modal's keydown handler.
handleModalKeydown(c) ==
    /\ modalOpen[c]
    /\ focus[c].el \notin {"page", "body"}
    /\ ~InPanel(c)
    /\ IF panels[c] # {}
       THEN /\ panels' = [panels EXCEPT ![c] = {}]
            /\ UNCHANGED <<drafts, modalOpen>>
            /\ lastOp' = Op("escapePanels", c)
            /\ UNCHANGED bursts
            /\ UNCHANGED <<dataset, listeners, scroll>>
            /\ UNCHANGED focus
       ELSE /\ closeModalAndDiscard(c)
            /\ lastOp' = Op("escapeModal", c)
            /\ UNCHANGED bursts
            /\ UNCHANGED <<dataset, listeners, scroll>>
            /\ focus' = [focus EXCEPT ![c] = Page]
    /\ UNCHANGED <<originalRows, filterTimeout, modalView, inputTimers, openSnapshot>>
    /\ UNCHANGED pageVars
    /\ UNCHANGED sortVars

\* Escape pressed inside an open panel: handlePanelKeydown closes the panels,
\* then the event bubbles to the modal's keydown handler, which finds no
\* open panel.
handlePanelKeydown(c) ==
    /\ modalOpen[c]
    /\ panels[c] # {}
    /\ InPanel(c)
    /\ closeModalAndDiscard(c)
    /\ lastOp' = Op("escapeInPanel", c)
    /\ UNCHANGED bursts
    /\ UNCHANGED <<dataset, listeners, scroll>>
    /\ focus' = [focus EXCEPT ![c] = Page]
    /\ UNCHANGED <<originalRows, filterTimeout, modalView, inputTimers, openSnapshot>>
    /\ UNCHANGED pageVars
    /\ UNCHANGED sortVars

\* A faulty variant of TriggerClick: the other panels are left as they are.
TriggerClickKeepOthers(c, type) ==
    /\ modalOpen[c]
    /\ type = "year-to" => ~modalView[c].yearToDisabled
    /\ panels' = [panels EXCEPT ![c] = IF type \in panels[c] THEN panels[c] \ {type}
                                       ELSE panels[c] \cup {type}]
    /\ lastOp' = OpArg("trigger", c, type, <<>>)
    /\ UNCHANGED bursts
    /\ UNCHANGED <<dataset, listeners, scroll>>
    /\ focus' = [focus EXCEPT ![c] = IF type \in panels[c] THEN Trigger(type) ELSE Panel(type)]
    /\ UNCHANGED <<originalRows, filterTimeout, drafts, modalOpen, modalView, inputTimers, openSnapshot>>
    /\ UNCHANGED pageVars
    /\ UNCHANGED sortVars

\* Click on the trigger of a panel.
TriggerClick(c, type) ==
    /\ modalOpen[c]
    /\ type = "year-to" => ~modalView[c].yearToDisabled
    /\ panels' = [panels EXCEPT ![c] = IF type \in panels[c] THEN {} ELSE {type}]
    /\ lastOp' = OpArg("trigger", c, type, <<>>)
    /\ UNCHANGED bursts
    /\ UNCHANGED <<dataset, listeners, scroll>>
    /\ focus' = [focus EXCEPT ![c] = IF type \in panels[c] THEN Trigger(type) ELSE Panel(type)]
    /\ UNCHANGED <<originalRows, filterTimeout, drafts, modalOpen, modalView, inputTimers, openSnapshot>>
    /\ UNCHANGED pageVars
    /\ UNCHANGED sortVars

\* Click on the OK control of a multi-select panel.
MultiOk(c, type) ==
    /\ modalOpen[c]
    /\ type \in panels[c]
    /\ panels' = [panels EXCEPT ![c] = panels[c] \ {type}]
    /\ lastOp' = Op("multiOk", c)
    /\ UNCHANGED bursts
    /\ UNCHANGED <<dataset, listeners, scroll>>
    /\ focus' = [focus EXCEPT ![c] = Trigger(type)]
    /\ UNCHANGED <<originalRows, filterTimeout, drafts, modalOpen, modalView, inputTimers, openSnapshot>>
    /\ UNCHANGED pageVars
    /\ UNCHANGED sortVars

\* A click anywhere in the modal outside triggers, panels and close controls.
ModalClick(c) ==
    /\ modalOpen[c]
    /\ panels' = [panels EXCEPT ![c] = {}]
    /\ lastOp' = Op("modalClick", c)
    /\ UNCHANGED bursts
    /\ UNCHANGED <<dataset, listeners, scroll>>
    /\ focus' = [focus EXCEPT ![c] = Dialog]
    /\ UNCHANGED <<originalRows, filterTimeout, drafts, modalOpen, modalView, inputTimers, openSnapshot>>
    /\ UNCHANGED pageVars
    /\ UNCHANGED sortVars

\* 'change' of a checkbox of an open multi-select panel: applyTriggerDraft.
MultiChange(c, type, value) ==
    LET before == IF type = "tech" THEN modalView[c].techChecked ELSE modalView[c].refsChecked
        checked == IF value \in before THEN before \ {value} ELSE before \cup {value}
        values == Array(getSelectedValues(checked, type))
    IN /\ modalOpen[c]
       /\ type \in panels[c]
       /\ ArrayIncludes(MultiOptions(type), value)
       /\ updateDraft(c, IF type = "tech" THEN [NoUpdates EXCEPT !.keys = {"techs"}, !.techs = values]
                      ELSE [NoUpdates EXCEPT !.keys = {"refs"}, !.refs = values])
       /\ lastOp' = OpArg("multiChange", c, type, <<value>>)
       /\ UNCHANGED bursts
       /\ UNCHANGED <<dataset, listeners, scroll>>
       /\ focus' = [focus EXCEPT ![c] = PanelItem(type, IndexOf(MultiOptions(type), value))]
       /\ UNCHANGED <<originalRows, filterTimeout, modalOpen, panels, inputTimers, openSnapshot>>
       /\ UNCHANGED pageVars
       /\ UNCHANGED sortVars

\* The update a click on an option of a single-select panel builds.
SingleUpdate(type, value) ==
    IF type = "stars" THEN [NoUpdates EXCEPT !.keys = {"stars"}, !.stars = value]
    ELSE IF type = "year-from" THEN [NoUpdates EXCEPT !.keys = {"yearFrom"}, !.yearFrom = value]
    ELSE IF type = "year-to" THEN [NoUpdates EXCEPT !.keys = {"yearTo"}, !.yearTo = value]
    ELSE IF type = "tech-boolean" THEN [NoUpdates EXCEPT !.keys = {"techMatch"}, !.techMatch = value]
    ELSE [NoUpdates EXCEPT !.keys = {"refMatch"}, !.refMatch = value]

\* A faulty variant of SingleOptionClick: the panel stays open.
SingleOptionClickStayOpen(c, type, value) ==
    /\ modalOpen[c]
    /\ type \in panels[c]
    /\ updateDraft(c, SingleUpdate(type, value))
    /\ panels' = panels
    /\ lastOp' = OpArg("singleOption", c, type, <<value>>)
    /\ UNCHANGED bursts
    /\ UNCHANGED <<dataset, listeners, scroll>>
    /\ focus' = [focus EXCEPT ![c] = Trigger(type)]
    /\ UNCHANGED <<originalRows, filterTimeout, modalOpen, inputTimers, openSnapshot>>
    /\ UNCHANGED pageVars
    /\ UNCHANGED sortVars

\* A faulty variant of SingleOptionClick: the choice is applied to the live
\* filters at once.
SingleOptionClickLive(c, type, value) ==
    /\ modalOpen[c]
    /\ type \in panels[c]
    /\ updateFilters(c, SingleUpdate(type, value))
    /\ panels' = [panels EXCEPT ![c] = panels[c] \ {type}]
    /\ lastOp' = OpArg("singleOption", c, type, <<value>>)
    /\ UNCHANGED bursts
    /\ UNCHANGED <<dataset, listeners, scroll>>
    /\ focus' = [focus EXCEPT ![c] = Trigger(type)]
    /\ UNCHANGED <<originalRows, filterTimeout, drafts, modalOpen, inputTimers, openSnapshot>>
    /\ UNCHANGED sortVars

\* Click on an option of an open single-select panel.
SingleOptionClick(c, type, value) ==
    /\ modalOpen[c]
    /\ type \in panels[c]
    /\ updateDraft(c, SingleUpdate(type, value))
    /\ panels' = [panels EXCEPT ![c] = panels[c] \ {type}]
    /\ lastOp' = OpArg("singleOption", c, type, <<value>>)
    /\ UNCHANGED bursts
    /\ UNCHANGED <<dataset, listeners, scroll>>
    /\ focus' = [focus EXCEPT ![c] = Trigger(type)]
    /\ UNCHANGED <<originalRows, filterTimeout, modalOpen, inputTimers, openSnapshot>>
    /\ UNCHANGED pageVars
    /\ UNCHANGED sortVars

\* Click on an option of an open single-select panel that carries the
\* disabled or the hidden attribute: the listener returns at once.  The
\* options of year-to lose both attributes whenever the modal is rendered.
InertOptionClick(c, type) ==
    /\ modalOpen[c]
    /\ type \in panels[c]
    /\ type # "year-to"
    /\ lastOp' = OpArg("inertOption", c, type, <<>>)
    /\ UNCHANGED bursts
    /\ UNCHANGED <<dataset, listeners, scroll>>
    /\ UNCHANGED focus
    /\ UNCHANGED <<originalRows, filterTimeout>>
    /\ UNCHANGED modalVars
    /\ UNCHANGED pageVars
    /\ UNCHANGED sortVars

\* Click on a pill of the modal's pill list.
ModalPillClick(c, i) ==
    LET draft == IF drafts[c] # <<>> THEN drafts[c][1] ELSE cloneFilters(filters[c])
    IN /\ modalOpen[c]
       /\ i \in 1..Len(modalView[c].pills)
       /\ updateDraft(c, PillUpdate(draft, modalView[c].pills[i]))
       /\ panels' = [panels EXCEPT ![c] = {}]
       /\ lastOp' = Op("modalPill", c)
       /\ UNCHANGED bursts
       /\ UNCHANGED <<dataset, listeners, scroll>>
       /\ focus' = [focus EXCEPT ![c] = Body]
       /\ UNCHANGED <<originalRows, filterTimeout, modalOpen, inputTimers, openSnapshot>>
       /\ UNCHANGED pageVars
       /\ UNCHANGED sortVars

(***************************************************************************)
(* Focus trapping                                                          *)
(***************************************************************************)
PanelSize(type) ==
    IF type \in MultiTypes THEN Len(MultiOptions(type)) + 1 ELSE Cardinality(SingleOptions(type))

\* utils.getPanelFocusables of an open panel, in document order
getPanelFocusables(type) == [i \in 1..PanelSize(type) |-> PanelItem(type, i)]

\* The triggers in document order, each followed by its panel.
TriggerOrder == <<"tech", "tech-boolean", "refs", "refs-boolean", "stars", "year-from", "year-to">>

RECURSIVE TriggersFrom(_, _, _)
TriggersFrom(k, view, open) ==
    IF k > Len(TriggerOrder) THEN <<>>
    ELSE LET type == TriggerOrder[k]
         IN (IF type = "year-to" /\ view.yearToDisabled THEN <<>> ELSE <<Trigger(type)>>)
            \o (IF type \in open THEN getPanelFocusables(type) ELSE <<>>)
            \o TriggersFrom(k + 1, view, open)

\* getFocusableElements: the elements of the dialog that match
\* FOCUSABLE_SELECTOR, are not disabled and not inside a hidden panel, in
\* document order.
getFocusableElements(view, open) ==
    <<Element("close", "", 0), SearchInput>> \o TriggersFrom(1, view, open)
        \o <<ClearButton, Element("accept", "", 0)>>
        \o [i \in 1..Len(view.pills) |-> Element("pill", "", i)]

\* A faulty variant of trapPanelFocus: the ends of the panel do not wrap.
trapPanelFocusNoWrap(type, active, shiftKey) ==
    LET focusables == getPanelFocusables(type)
        first == focusables[1]
        last == focusables[Len(focusables)]
    IN IF active = Panel(type) THEN [handled |-> TRUE, focus |-> IF shiftKey THEN last ELSE first]
       ELSE IF ~(active.el = "item" /\ active.type = type)
       THEN [handled |-> TRUE, focus |-> IF shiftKey THEN last ELSE first]
       ELSE [handled |-> FALSE, focus |-> active]

\* trapPanelFocus for a Tab keydown on an open panel: whether it handled the
\* key (and prevented the default) and where the focus is afterwards.
trapPanelFocus(type, active, shiftKey) ==
    LET focusables == getPanelFocusables(type)
        first == focusables[1]
        last == focusables[Len(focusables)]
    IN IF active = Panel(type) THEN [handled |-> TRUE, focus |-> IF shiftKey THEN last ELSE first]
       ELSE IF ~(active.el = "item" /\ active.type = type)
       THEN [handled |-> TRUE, focus |-> IF shiftKey THEN last ELSE first]
       ELSE IF ~shiftKey /\ active = last THEN [handled |-> TRUE, focus |-> first]
       ELSE IF shiftKey /\ active = first THEN [handled |-> TRUE, focus |-> last]
       ELSE [handled |-> FALSE, focus |-> active]

\* trapFocus for a Tab keydown in the open modal.
trapFocus(focusables, active, shiftKey) ==
    LET first == focusables[1]
        last == focusables[Len(focusables)]
    IN IF active = Dialog THEN [handled |-> TRUE, focus |-> IF shiftKey THEN last ELSE first]
       ELSE IF active.el \in {"page", "body"}
       THEN [handled |-> TRUE, focus |-> IF shiftKey THEN last ELSE first]
       ELSE IF ~shiftKey /\ active = last THEN [handled |-> TRUE, focus |-> first]
       ELSE IF shiftKey /\ active = first THEN [handled |-> TRUE, focus |-> last]
       ELSE [handled |-> FALSE, focus |-> active]

\* The browser's own move of the focus for a Tab that no handler prevented.
TabOrder(focusables, active, shiftKey) ==
    focusables[IndexOf(focusables, active) + (IF shiftKey THEN -1 ELSE 1)]

\* Tab or Shift+Tab pressed with the focus inside the modal: the panel's
\* keydown listener if the focus is in an open panel, then the modal's, then
\* the browser's default unless prevented.
KeyTab(c, shiftKey) ==
    LET inPanel == IF InPanel(c) THEN trapPanelFocus(focus[c].type, focus[c], shiftKey)
                   ELSE [handled |-> FALSE, focus |-> focus[c]]
        focusables == getFocusableElements(modalView[c], panels[c])
        inModal == trapFocus(focusables, inPanel.focus, shiftKey)
    IN /\ modalOpen[c]
       /\ focus[c].el \notin {"page", "body"}
       /\ UNCHANGED <<dataset, listeners, scroll>>
       /\ focus' = [focus EXCEPT ![c] = IF inPanel.handled \/ inModal.handled THEN inModal.focus
                                        ELSE TabOrder(focusables, inModal.focus, shiftKey)]
       /\ lastOp' = OpArg("tab", c, IF shiftKey THEN "shift" ELSE "", <<>>)
       /\ UNCHANGED bursts
       /\ UNCHANGED <<originalRows, filterTimeout>>
       /\ UNCHANGED modalVars
       /\ UNCHANGED pageVars
       /\ UNCHANGED sortVars

(***************************************************************************)
(* Direct calls of the public entry points                                 *)
(***************************************************************************)
RawQueries == {[k |-> "undefined", s |-> <<>>], Str(<<" ", "A", " ">>)}
RawTechs == {[isArray |-> FALSE, items |-> <<>>],
             Array(<< <<" ", "P">>, <<"j">> >>), Array(<< <<"p">>, <<" ">>, <<"p">> >>)}
RawRefs == {Array(<<>>), Array(<< <<"g">>, <<" ">>, <<"d">> >>)}
RawStars == {NoneString, NumStr(5), TextString}
RawYears == {EmptyString, Num(2019), Num(2020), NumStr(2021)}
RawMatches == {"and", "xor"}

Pick(K, key, values, default) == IF key \in K THEN values ELSE {default}

\* The property sets of the update objects a caller passes: none, one
\* property, or a pair of properties that belong together.
UpdateKeys ==
    {{}} \cup {{key} : key \in FilterKeys}
         \cup {{"yearFrom", "yearTo"}, {"techs", "techMatch"}, {"refs", "refMatch"}, {"query", "stars"}}

RawUpdates ==
    UNION {[keys : {K},
            query : Pick(K, "query", RawQueries, NoUpdates.query),
            techs : Pick(K, "techs", RawTechs, NoUpdates.techs),
            refs : Pick(K, "refs", RawRefs, NoUpdates.refs),
            stars : Pick(K, "stars", RawStars, NoUpdates.stars),
            yearFrom : Pick(K, "yearFrom", RawYears, NoUpdates.yearFrom),
            yearTo : Pick(K, "yearTo", RawYears, NoUpdates.yearTo),
            techMatch : Pick(K, "techMatch", RawMatches, NoUpdates.techMatch),
            refMatch : Pick(K, "refMatch", RawMatches, NoUpdates.refMatch)] :
           K \in UpdateKeys}

\* CollectionTable.updateFilters(collection, updates)
UpdateFiltersCall(c, updates) ==
    /\ updateFilters(c, updates)
    /\ lastOp' = Op("updateFilters", c)
    /\ UNCHANGED bursts
    /\ UNCHANGED <<dataset, listeners, scroll>>
    /\ UNCHANGED focus
    /\ UNCHANGED <<originalRows, filterTimeout, drafts, modalOpen, panels, inputTimers, openSnapshot>>
    /\ UNCHANGED sortVars

\* CollectionTable.clearAllFilters(collection, {resetSort})
ClearAllFiltersCall(c, resetSort) ==
    /\ clearAllFilters(c, resetSort)
    /\ lastOp' = OpArg("clearAllFilters", c, IF resetSort THEN "resetSort" ELSE "keepSort", <<>>)
    /\ UNCHANGED bursts
    /\ UNCHANGED <<dataset, listeners, scroll>>
    /\ UNCHANGED focus
    /\ UNCHANGED <<originalRows, drafts, modalOpen, panels, inputTimers, openSnapshot>>

(***************************************************************************)
(* Specifications                                                          *)
(***************************************************************************)
(***************************************************************************)
(* Initialization                                                          *)
(***************************************************************************)
(***************************************************************************)
(* Scroll helper: events                                                   *)
(***************************************************************************)
\* mouseenter and mouseleave of the wrapper set and clear hoveredWrap.
PointerCrosses(c) ==
    /\ scroll' = [scroll EXCEPT ![c].hovered = ~scroll[c].hovered, ![c].prevented = FALSE]
    /\ lastOp' = Op(IF scroll[c].hovered THEN "mouseleave" ELSE "mouseenter", c)
    /\ UNCHANGED <<originalRows, filterTimeout, events, bursts, focus, dataset, listeners>>
    /\ UNCHANGED pageVars
    /\ UNCHANGED sortVars
    /\ UNCHANGED modalVars

\* The window is resized: the wrapper gets another layout, and the browser
\* keeps the scroll position inside the new scrollable range.
Resize(c, layout) ==
    /\ layout # scroll[c].layout
    /\ scroll' = [scroll EXCEPT
            ![c].layout = layout,
            ![c].prevented = FALSE,
            ![c].left = Min(scroll[c].left,
                            ScrollGeometry(layout).scrollWidth - ScrollGeometry(layout).clientWidth),
            ![c].top = Min(scroll[c].top,
                           ScrollGeometry(layout).scrollHeight - ScrollGeometry(layout).clientHeight)]
    /\ lastOp' = Op("resize", c)
    /\ UNCHANGED <<originalRows, filterTimeout, events, bursts, focus, dataset, listeners>>
    /\ UNCHANGED pageVars
    /\ UNCHANGED sortVars
    /\ UNCHANGED modalVars

\* A keydown event: first the capturing listener of the window
\* (initGlobalHoverKeyHandler), then, for a target inside the wrapper, the
\* wrapper's own listener (initWrapper).
KeyDown(c, key, shiftKey, target) ==
    LET start == [scroll[c] EXCEPT !.prevented = FALSE]
        global == IF ~start.hovered THEN start
                  ELSE IF isEditableElement(target) THEN start
                  ELSE IF InWrapper(target) THEN start
                  ELSE IF isInteractiveTarget(target) THEN start
                  ELSE handleScrollKeys(start, key, shiftKey, FALSE)
        own == IF InWrapper(target) THEN handleScrollKeys(global, key, shiftKey, TRUE) ELSE global
    IN /\ PageInteractive
       /\ scroll' = [scroll EXCEPT ![c] = [own EXCEPT !.prevented = global.prevented \/ own.prevented]]
       /\ lastOp' = OpArg("keydown", c, target, <<key>>)
       /\ UNCHANGED <<originalRows, filterTimeout, events, bursts, focus, dataset, listeners>>
    /\ UNCHANGED pageVars
    /\ UNCHANGED sortVars
    /\ UNCHANGED modalVars

\* A faulty variant of Wheel: the mode "edge" redirects like "always".
WheelEdgeAlways(c, e, mode) ==
    LET s == scroll[c]
        g == ScrollGeometry(s.layout)
        hasX == g.scrollWidth > g.clientWidth + 1
        hasY == g.scrollHeight > g.clientHeight + 1
        absX == IF e.deltaX < 0 THEN -e.deltaX ELSE e.deltaX
        absY == IF e.deltaY < 0 THEN -e.deltaY ELSE e.deltaY
        by(delta) == [s EXCEPT !.left = Max(0, Min(s.left + delta, g.scrollWidth - g.clientWidth)),
                               !.prevented = TRUE]
    IN /\ scroll' = [scroll EXCEPT ![c] =
            IF ~hasX /\ ~hasY THEN [s EXCEPT !.prevented = FALSE]
            ELSE IF hasX /\ absX > absY /\ absX > 0 THEN by(e.deltaX)
            ELSE IF hasX /\ e.shiftKey /\ absY > 0 THEN by(e.deltaY)
            ELSE IF hasX /\ absY > 0 /\ mode \in {"always", "edge"} THEN by(e.deltaY)
            ELSE [s EXCEPT !.prevented = FALSE]]
       /\ lastOp' = OpArg("wheel", c, mode, <<e.deltaX, e.deltaY, IF e.shiftKey THEN 1 ELSE 0>>)
       /\ UNCHANGED <<originalRows, filterTimeout, events, bursts, focus, dataset, listeners>>
       /\ UNCHANGED pageVars
       /\ UNCHANGED sortVars
       /\ UNCHANGED modalVars

\* The wheel listener of the wrapper; mode is its data-wheel-mode in lower
\* case, "smart" when the attribute is missing.  The browser keeps the
\* assigned scroll position inside the scrollable range.
Wheel(c, e, mode) ==
    LET s == scroll[c]
        g == ScrollGeometry(s.layout)
        hasX == g.scrollWidth > g.clientWidth + 1
        hasY == g.scrollHeight > g.clientHeight + 1
        absX == IF e.deltaX < 0 THEN -e.deltaX ELSE e.deltaX
        absY == IF e.deltaY < 0 THEN -e.deltaY ELSE e.deltaY
        atTop == s.top <= 0
        atBottom == s.top + g.clientHeight >= g.scrollHeight - 1
        by(delta) == [s EXCEPT !.left = Max(0, Min(s.left + delta, g.scrollWidth - g.clientWidth)),
                               !.prevented = TRUE]
    IN /\ scroll' = [scroll EXCEPT ![c] =
            IF ~hasX /\ ~hasY THEN [s EXCEPT !.prevented = FALSE]
            ELSE IF hasX /\ absX > absY /\ absX > 0 THEN by(e.deltaX)
            ELSE IF hasX /\ e.shiftKey /\ absY > 0 THEN by(e.deltaY)
            ELSE IF hasX /\ absY > 0 /\ mode = "always" THEN by(e.deltaY)
            ELSE IF hasX /\ absY > 0 /\ mode = "edge" /\ (~hasY \/ atTop \/ atBottom) THEN by(e.deltaY)
            ELSE [s EXCEPT !.prevented = FALSE]]
       /\ lastOp' = OpArg("wheel", c, mode, <<e.deltaX, e.deltaY, IF e.shiftKey THEN 1 ELSE 0>>)
       /\ UNCHANGED <<originalRows, filterTimeout, events, bursts, focus, dataset, listeners>>
       /\ UNCHANGED pageVars
       /\ UNCHANGED sortVars
       /\ UNCHANGED modalVars

\* The pointerdown listener of the wrapper.  e.pointerId is 1 or 2; 0
\* stands for the null of pointerId.  A target that is not interactive is a
\* cell of the table.
PointerDown(c, e) ==
    /\ scroll' = [scroll EXCEPT ![c] =
            IF isInteractiveTarget(e.target) THEN [@ EXCEPT !.prevented = FALSE]
            ELSE IF ~(e.button = 1 \/ (e.button = 0 /\ e.altKey)) THEN [@ EXCEPT !.prevented = FALSE]
            ELSE [@ EXCEPT !.isPanning = TRUE, !.pointerId = e.pointerId,
                           !.startX = e.clientX, !.startY = e.clientY,
                           !.startLeft = scroll[c].left, !.startTop = scroll[c].top,
                           !.prevented = TRUE]]
    /\ lastOp' = OpArg("pointerdown", c, e.target,
                       <<e.pointerId, e.clientX, e.clientY, e.button, IF e.altKey THEN 1 ELSE 0>>)
    /\ UNCHANGED <<originalRows, filterTimeout, events, bursts, focus, dataset, listeners>>
    /\ UNCHANGED pageVars
    /\ UNCHANGED sortVars
    /\ UNCHANGED modalVars

\* A faulty variant of PointerMove: the pointer of the event is not
\* compared with the one that started the pan.
PointerMoveAnyPointer(c, e) ==
    LET s == scroll[c]
        g == ScrollGeometry(s.layout)
        dx == e.clientX - s.startX
        dy == e.clientY - s.startY
    IN /\ scroll' = [scroll EXCEPT ![c] =
            IF ~s.isPanning THEN [s EXCEPT !.prevented = FALSE]
            ELSE [s EXCEPT !.left = Max(0, Min(s.startLeft - dx, g.scrollWidth - g.clientWidth)),
                           !.top = Max(0, Min(s.startTop - dy, g.scrollHeight - g.clientHeight)),
                           !.prevented = FALSE]]
       /\ lastOp' = OpArg("pointermove", c, "", <<e.pointerId, e.clientX, e.clientY>>)
       /\ UNCHANGED <<originalRows, filterTimeout, events, bursts, focus, dataset, listeners>>
       /\ UNCHANGED pageVars
       /\ UNCHANGED sortVars
       /\ UNCHANGED modalVars

\* The pointermove listener of the wrapper; the browser keeps the assigned
\* scroll position inside the scrollable range.
PointerMove(c, e) ==
    LET s == scroll[c]
        g == ScrollGeometry(s.layout)
        dx == e.clientX - s.startX
        dy == e.clientY - s.startY
    IN /\ scroll' = [scroll EXCEPT ![c] =
            IF ~s.isPanning \/ e.pointerId # s.pointerId THEN [s EXCEPT !.prevented = FALSE]
            ELSE [s EXCEPT !.left = Max(0, Min(s.startLeft - dx, g.scrollWidth - g.clientWidth)),
                           !.top = Max(0, Min(s.startTop - dy, g.scrollHeight - g.clientHeight)),
                           !.prevented = FALSE]]
       /\ lastOp' = OpArg("pointermove", c, "", <<e.pointerId, e.clientX, e.clientY>>)
       /\ UNCHANGED <<originalRows, filterTimeout, events, bursts, focus, dataset, listeners>>
       /\ UNCHANGED pageVars
       /\ UNCHANGED sortVars
       /\ UNCHANGED modalVars

\* endPan, the listener of pointerup, pointercancel and lostpointercapture.
endPan(c, event) ==
    /\ scroll' = [scroll EXCEPT ![c] =
            IF ~@.isPanning THEN [@ EXCEPT !.prevented = FALSE]
            ELSE [@ EXCEPT !.isPanning = FALSE, !.pointerId = 0, !.prevented = FALSE]]
    /\ lastOp' = Op(event, c)
    /\ UNCHANGED <<originalRows, filterTimeout, events, bursts, focus, dataset, listeners>>
    /\ UNCHANGED pageVars
    /\ UNCHANGED sortVars
    /\ UNCHANGED modalVars

\* The page before any binding has run: no marker, no listener, the state
\* record of getState as created on first use, the rows and the modal as in
\* the markup.
Unbound ==
    /\ filters = [c \in Wrappers |-> getDefaultFilters]
    /\ table = [c \in Wrappers |->
                    [i \in RowIds |-> [id |-> i, bound |-> TRUE, filteredOut |-> FALSE]]]
    /\ originalRows = [c \in Wrappers |-> <<>>]
    /\ visibleCount = [c \in Wrappers |-> 0]
    /\ pills = [c \in Wrappers |-> <<>>]
    /\ filterInput = [c \in Wrappers |-> <<>>]
    /\ filterTimeout = [c \in Wrappers |-> <<>>]
    /\ sort = [c \in Wrappers |-> DefaultSort]
    /\ ariaSort = [c \in Wrappers |-> [h \in HeaderIds |-> "none"]]
    /\ modeIndicator = [c \in Wrappers |-> [h \in HeaderIds |-> ""]]
    /\ drafts = [c \in Wrappers |-> <<>>]
    /\ modalOpen = [c \in Wrappers |-> FALSE]
    /\ panels = [c \in Wrappers |-> {}]
    /\ modalView = [c \in Wrappers |-> RenderModal(getDefaultFilters)]
    /\ inputTimers = [c \in Wrappers |-> <<>>]
    /\ lastOp = Op("load", "")
    /\ openSnapshot = [c \in Wrappers |-> getDefaultFilters]
    /\ clicks = [c \in Wrappers |-> NoClicks]
    /\ events = 0
    /\ bursts = [c \in Wrappers |-> [page |-> NoBurst, modal |-> NoBurst]]
    /\ focus = [c \in Wrappers |-> Page]
    /\ dataset = [c \in Wrappers |-> {}]
    /\ listeners = [c \in Wrappers |-> [el \in Listened |-> 0]]
    /\ scroll = [c \in Wrappers |->
                    [hovered |-> FALSE, layout |-> "wide table", left |-> 0, top |-> 0, prevented |-> FALSE,
                     isPanning |-> FALSE, pointerId |-> 0, startX |-> 0, startY |-> 0,
                     startLeft |-> 0, startTop |-> 0]]

\* Marks the elements and attaches a listener set to each one that carried
\* no marker yet.
Bind(c, elements) ==
    /\ dataset' = [dataset EXCEPT ![c] = dataset[c] \cup elements]
    /\ listeners' = [listeners EXCEPT ![c] =
            [el \in Listened |-> IF el \in elements \ dataset[c]
                                 THEN listeners[c][el] + 1 ELSE listeners[c][el]]]

\* A faulty variant of initFilteringSorting: the marker of the wrapper is
\* not looked at.
initFilteringSortingAgain(c) ==
    /\ lastOp' = OpArg("initFilteringSorting", c, IF "wrapper" \in dataset[c] THEN "repeat" ELSE "first", <<>>)
    /\ IF c = "aotd"
       THEN UNCHANGED <<pageVars, modalView, originalRows, dataset, listeners>>
       ELSE
            /\ Bind(c, Markers \ {"modal", "openButton"})
            /\ originalRows' = [originalRows EXCEPT ![c] = [i \in 1..Len(table[c]) |->
                    [id |-> table[c][i].id, filteredOut |-> table[c][i].filteredOut]]]
            /\ UNCHANGED filters
            /\ showMatches(c, filters[c], table[c])
    /\ UNCHANGED <<filterTimeout, drafts, modalOpen, panels, inputTimers, openSnapshot>>
    /\ UNCHANGED sortVars
    /\ UNCHANGED <<events, bursts, focus, scroll>>

\* A faulty variant of initFilteringSorting: the pick of the day is bound
\* like every collection.
initFilteringSortingAll(c) ==
    /\ lastOp' = OpArg("initFilteringSorting", c, IF "wrapper" \in dataset[c] THEN "repeat" ELSE "first", <<>>)
    /\ IF "wrapper" \in dataset[c]
       THEN UNCHANGED <<pageVars, modalView, originalRows, dataset, listeners>>
       ELSE
            /\ Bind(c, Markers \ {"modal", "openButton"})
            /\ originalRows' = [originalRows EXCEPT ![c] = [i \in 1..Len(table[c]) |->
                    [id |-> table[c][i].id, filteredOut |-> table[c][i].filteredOut]]]
            /\ UNCHANGED filters
            /\ showMatches(c, filters[c], table[c])
    /\ UNCHANGED <<filterTimeout, drafts, modalOpen, panels, inputTimers, openSnapshot>>
    /\ UNCHANGED sortVars
    /\ UNCHANGED <<events, bursts, focus, scroll>>

\* initFilteringSorting(wrapper)
initFilteringSorting(c) ==
    /\ lastOp' = OpArg("initFilteringSorting", c, IF "wrapper" \in dataset[c] THEN "repeat" ELSE "first", <<>>)
    /\ IF c = "aotd" \/ "wrapper" \in dataset[c]
       THEN UNCHANGED <<pageVars, modalView, originalRows, dataset, listeners>>
       ELSE
            /\ Bind(c, Markers \ {"modal", "openButton"})
            /\ originalRows' = [originalRows EXCEPT ![c] = [i \in 1..Len(table[c]) |->
                    [id |-> table[c][i].id, filteredOut |-> table[c][i].filteredOut]]]
            /\ UNCHANGED filters
            /\ showMatches(c, filters[c], table[c])
    /\ UNCHANGED <<filterTimeout, drafts, modalOpen, panels, inputTimers, openSnapshot>>
    /\ UNCHANGED sortVars
    /\ UNCHANGED <<events, bursts, focus, scroll>>

\* initModal(modal): the listeners of the modal and registerAdvancedSync,
\* which runs the callback once.
initModal(c) ==
    /\ lastOp' = OpArg("initModal", c, IF "modal" \in dataset[c] THEN "repeat" ELSE "first", <<>>)
    /\ IF "modal" \in dataset[c]
       THEN UNCHANGED <<modalView, dataset, listeners>>
       ELSE /\ Bind(c, {"modal"})
            /\ modalView' = IF drafts[c] # <<>> /\ modalOpen[c] THEN modalView
                            ELSE [modalView EXCEPT ![c] = RenderModal(filters[c])]
    /\ UNCHANGED <<filters, table, visibleCount, pills, filterInput>>
    /\ UNCHANGED <<originalRows, filterTimeout, drafts, modalOpen, panels, inputTimers, openSnapshot>>
    /\ UNCHANGED sortVars
    /\ UNCHANGED <<events, bursts, focus, scroll>>

\* initOpenButtons()
initOpenButtons(c) ==
    /\ lastOp' = OpArg("initOpenButtons", c, IF "openButton" \in dataset[c] THEN "repeat" ELSE "first", <<>>)
    /\ IF "openButton" \in dataset[c]
       THEN UNCHANGED <<dataset, listeners>>
       ELSE Bind(c, {"openButton"})
    /\ UNCHANGED pageVars
    /\ UNCHANGED modalVars
    /\ UNCHANGED <<originalRows, filterTimeout>>
    /\ UNCHANGED sortVars
    /\ UNCHANGED <<events, bursts, focus, scroll>>

\* The collection the visitor works with.
Active == {"online"}

PageNext ==
    \E c \in Active :
        \/ \E value \in TypedTexts : UserEvent(PageInput(c, value))
        \/ TimerEvent(PageTimerFires(c))
        \/ UserEvent(ClearClick(c))
        \/ \E i \in 1..Len(pills[c]) : UserEvent(PagePillClick(c, i))
        \/ \E h \in HeaderIds : UserEvent(handleSort(c, h))

ModalNext ==
    \E c \in Active :
        \/ UserEvent(OpenClick(c))
        \/ \E value \in TypedTexts : UserEvent(ModalInput(c, value))
        \/ TimerEvent(ModalTimerFires(c))
        \/ UserEvent(ModalClear(c))
        \/ UserEvent(Accept(c))
        \/ UserEvent(CloseClick(c))
        \/ UserEvent(handleModalKeydown(c))
        \/ UserEvent(handlePanelKeydown(c))
        \/ \E type \in MultiTypes \cup SingleTypes : UserEvent(TriggerClick(c, type))
        \/ \E type \in MultiTypes : UserEvent(MultiOk(c, type))
        \/ UserEvent(ModalClick(c))
        \/ \E type \in MultiTypes : \E i \in 1..Len(MultiOptions(type)) :
                UserEvent(MultiChange(c, type, MultiOptions(type)[i]))
        \/ \E type \in SingleTypes : \E value \in SingleOptions(type) :
                UserEvent(SingleOptionClick(c, type, value))
        \/ \E type \in SingleTypes : UserEvent(InertOptionClick(c, type))
        \/ \E i \in 1..Len(modalView[c].pills) : UserEvent(ModalPillClick(c, i))

Next == PageNext \/ ModalNext

Spec == Init /\ [][Next]_vars

ApiNext ==
    \E c \in Active :
        \/ \E updates \in RawUpdates : TimerEvent(UpdateFiltersCall(c, updates))
        \/ \E resetSort \in BOOLEAN : TimerEvent(ClearAllFiltersCall(c, resetSort))

SpecApi == Init /\ [][ApiNext]_vars

\* The page alone, sessions of any length.
SortNext ==
    \E c \in Active :
        \/ \E value \in TypedTexts : TimerEvent(PageInput(c, value))
        \/ TimerEvent(PageTimerFires(c))
        \/ TimerEvent(ClearClick(c))
        \/ \E i \in 1..Len(pills[c]) : TimerEvent(PagePillClick(c, i))
        \/ \E h \in HeaderIds : TimerEvent(handleSort(c, h))

SpecSort == Init /\ [][SortNext]_vars

\* updateFilters calls that set one criterion each, and clicks on the pills
\* they leave in the page filter bar.
PillNext ==
    \E c \in Active :
        \/ \E updates \in {u \in RawUpdates : u.keys \in {{"query"}, {"techs"}, {"refs"}, {"stars"},
                                                          {"yearFrom", "yearTo"}}} :
                TimerEvent(UpdateFiltersCall(c, updates))
        \/ \E i \in 1..Len(pills[c]) : TimerEvent(PagePillClick(c, i))

SpecPills == Init /\ [][PillNext]_vars

\* A page whose tables hold two rows of the markup, in either order, bound
\* as Init binds the generated tables.  With two rows the comparator of
\* sortTable is consistent whatever it returns, so the order that
\* Array.prototype.sort leaves is the one of StableSort.
TwoRows ==
    \E a, b \in DOMAIN RowData :
    /\ a # b
    /\ filters = [c \in Wrappers |-> getDefaultFilters]
    /\ table = [c \in Wrappers |->
                    [i \in 1..2 |-> [id |-> IF i = 1 THEN a ELSE b, bound |-> TRUE, filteredOut |-> FALSE]]]
    /\ originalRows = [c \in Wrappers |-> IF c \notin Collections THEN <<>>
                        ELSE [i \in 1..2 |-> [id |-> IF i = 1 THEN a ELSE b, filteredOut |-> FALSE]]]
    /\ visibleCount = [c \in Wrappers |-> IF c \in Collections THEN 2 ELSE 0]
    /\ pills = [c \in Wrappers |-> <<>>]
    /\ filterInput = [c \in Wrappers |-> <<>>]
    /\ filterTimeout = [c \in Wrappers |-> <<>>]
    /\ sort = [c \in Wrappers |-> DefaultSort]
    /\ ariaSort = [c \in Wrappers |-> [h \in HeaderIds |-> "none"]]
    /\ modeIndicator = [c \in Wrappers |-> [h \in HeaderIds |-> ""]]
    /\ drafts = [c \in Wrappers |-> <<>>]
    /\ modalOpen = [c \in Wrappers |-> FALSE]
    /\ panels = [c \in Wrappers |-> {}]
    /\ modalView = [c \in Wrappers |-> RenderModal(getDefaultFilters)]
    /\ inputTimers = [c \in Wrappers |-> <<>>]
    /\ lastOp = Op("init", "")
    /\ openSnapshot = [c \in Wrappers |-> getDefaultFilters]
    /\ clicks = [c \in Wrappers |-> NoClicks]
    /\ events = 0
    /\ bursts = [c \in Wrappers |-> [page |-> NoBurst, modal |-> NoBurst]]
    /\ focus = [c \in Wrappers |-> Page]
    /\ dataset = [c \in Wrappers |-> IF c \in Collections THEN Markers ELSE {}]
    /\ listeners = [c \in Wrappers |-> [el \in Listened |-> IF c \in Collections THEN 1 ELSE 0]]
    /\ scroll = [c \in Wrappers |->
                    [hovered |-> FALSE, layout |-> "wide table", left |-> 0, top |-> 0, prevented |-> FALSE,
                     isPanning |-> FALSE, pointerId |-> 0, startX |-> 0, startY |-> 0,
                     startLeft |-> 0, startTop |-> 0]]

SpecRows == TwoRows /\ [][SortNext]_vars

\* The two search boxes, opening the modal and closing it, sessions of any
\* length.
DebounceNext ==
    \E c \in Active :
        \/ \E value \in TypedTexts : TimerEvent(PageInput(c, value))
        \/ TimerEvent(PageTimerFires(c))
        \/ TimerEvent(OpenClick(c))
        \/ \E value \in TypedTexts : TimerEvent(ModalInput(c, value))
        \/ TimerEvent(ModalTimerFires(c))
        \/ TimerEvent(CloseClick(c))

\* The modal with its panels under keyboard and mouse, sessions of any
\* length.
FocusNext ==
    \E c \in Active :
        \/ TimerEvent(OpenClick(c))
        \/ TimerEvent(CloseClick(c))
        \/ \E type \in MultiTypes \cup SingleTypes : TimerEvent(TriggerClick(c, type))
        \/ \E type \in MultiTypes : TimerEvent(MultiOk(c, type))
        \/ TimerEvent(ModalClick(c))
        \/ \E i \in 1..Len(MultiOptions("tech")) :
                TimerEvent(MultiChange(c, "tech", MultiOptions("tech")[i]))
        \/ \E value \in SingleOptions("year-from") :
                TimerEvent(SingleOptionClick(c, "year-from", value))
        \/ \E i \in 1..Len(modalView[c].pills) : TimerEvent(ModalPillClick(c, i))
        \/ \E shiftKey \in BOOLEAN : TimerEvent(KeyTab(c, shiftKey))

SpecFocus == Init /\ [][FocusNext]_vars

\* A timer that is pending runs once its delay has passed: weak fairness of
\* the two timer actions, WF_vars(PageTimerFires(c)) and
\* WF_vars(ModalTimerFires(c)), with ENABLED written out as the guard of the
\* action, which is a pending timer.
TimersRun ==
    \A c \in Active :
        /\ []<>(filterTimeout[c] = <<>>) \/ []<><<TimerEvent(PageTimerFires(c))>>_vars
        /\ []<>(inputTimers[c] = <<>>) \/ []<><<TimerEvent(ModalTimerFires(c))>>_vars

\* The page search bar, the headers, the clear button and direct calls of
\* both entry points, sessions of any length.
ClearNext ==
    \E c \in Active :
        \/ \E value \in TypedTexts : TimerEvent(PageInput(c, value))
        \/ TimerEvent(PageTimerFires(c))
        \/ \E h \in HeaderIds : TimerEvent(handleSort(c, h))
        \/ TimerEvent(ClearClick(c))
        \/ \E updates \in {u \in RawUpdates : u.keys = {"refs"}} : TimerEvent(UpdateFiltersCall(c, updates))
        \/ \E resetSort \in BOOLEAN : TimerEvent(ClearAllFiltersCall(c, resetSort))

SpecClear == Init /\ [][ClearNext]_vars

\* Binding calls, repeated at any time, among typing, sorting and opening
\* and closing the modal; sessions of any length. An event reaches a
\* handler once initAll has run for the table and for the modal, so that
\* every element has its listeners.
InitNext ==
    \E c \in Active :
        \/ initFilteringSorting(c)
        \/ initModal(c)
        \/ initOpenButtons(c)
        \/ \E value \in {<<"a">>} : dataset[c] = Markers /\ TimerEvent(PageInput(c, value))
        \/ dataset[c] = Markers /\ TimerEvent(PageTimerFires(c))
        \/ \E h \in {0, 1} : dataset[c] = Markers /\ TimerEvent(handleSort(c, h))
        \/ dataset[c] = Markers /\ TimerEvent(OpenClick(c))
        \/ dataset[c] = Markers /\ TimerEvent(CloseClick(c))

SpecInit == Unbound /\ [][InitNext]_vars

\* The table wrapper under the keyboard, the pointer and window resizes;
\* sessions of any length.
ScrollNext ==
    \E c \in Active :
        \/ PointerCrosses(c)
        \/ \E layout \in {"wide table", "wide and long table", "narrow table"} : Resize(c, layout)
        \/ \E key \in {"ArrowLeft", "ArrowRight", "Home", "End", "PageUp", "PageDown", "a"} :
           \E shiftKey \in BOOLEAN :
           \E target \in {"wrapper", "link", "input", "outer input", "outer button", "body"} :
                KeyDown(c, key, shiftKey, target)

SpecScroll == Init /\ [][ScrollNext]_vars

\* The table wrapper under one or two pointers: presses with the left,
\* middle or right button, moves and releases, at two places of the screen.
PanNext ==
    \E c \in Active :
        \/ Resize(c, "wide and long table")
        \/ \E e \in [pointerId : {1, 2}, button : {0, 1, 2}, altKey : BOOLEAN,
                     target : {"wrapper", "link"}, clientX : {0, 50}, clientY : {0, 100}] :
                e.clientY = 2 * e.clientX /\ PointerDown(c, e)
        \/ \E e \in [pointerId : {1, 2}, clientX : {0, 50}, clientY : {0, 100}] : PointerMove(c, e)
        \/ \E event \in {"pointerup", "pointercancel", "lostpointercapture"} : endPan(c, event)

SpecPan == Init /\ [][PanNext]_vars

\* The table wrapper under the wheel, with PageUp and PageDown on the
\* focused wrapper and window resizes to bring it to every position.
WheelNext ==
    \E c \in Active :
        \/ \E layout \in {"wide table", "wide and long table", "narrow table"} : Resize(c, layout)
        \/ \E key \in {"PageUp", "PageDown"} : KeyDown(c, key, FALSE, "wrapper")
        \/ \E e \in [deltaX : {-60, 0, 60}, deltaY : {-40, 0, 40}, shiftKey : BOOLEAN] :
           \E mode \in {"smart", "always", "edge"} : Wheel(c, e, mode)

SpecWheel == Init /\ [][WheelNext]_vars

\* The pick of the day next to a collection: the page is bound, perhaps
\* more than once, and scripts call the filtering engine with its name.
AotdNext ==
    \/ \E c \in {"aotd", "online"} : initFilteringSorting(c)
    \/ \E updates \in RawUpdates : TimerEvent(UpdateFiltersCall("aotd", updates))
    \/ \E resetSort \in BOOLEAN : TimerEvent(ClearAllFiltersCall("aotd", resetSort))

SpecAotd == Unbound /\ [][AotdNext]_vars

\* Two collections on one page: typing, sorting, direct calls and the
\* advanced search of either collection, in sessions of MaxEvents user
\* events.
BothNext ==
    \E c \in Collections :
        \/ \E value \in {<<"a">>} : UserEvent(PageInput(c, value))
        \/ TimerEvent(PageTimerFires(c))
        \/ \E h \in {1} : UserEvent(handleSort(c, h))
        \/ \E updates \in {u \in RawUpdates : u.keys = {"refs"}} : UserEvent(UpdateFiltersCall(c, updates))
        \/ UserEvent(OpenClick(c))
        \/ \E value \in {<<"d", " ">>} : UserEvent(ModalInput(c, value))
        \/ TimerEvent(ModalTimerFires(c))
        \/ UserEvent(ModalClear(c))
        \/ UserEvent(Accept(c))
        \/ UserEvent(CloseClick(c))

SpecBoth == Init /\ [][BothNext]_vars

SpecDebounce == Init /\ [][DebounceNext]_vars /\ TimersRun

(***************************************************************************)
(* Properties: filtering                                                   *)
(***************************************************************************)
\* The criterion groups of a filter set f, read from the facts of row id.
QueryGroup(id, f) == f.query = <<>> \/ Includes(RowFacts[id].text, ToLowerCase(f.query))

TagGroup(rowTags, tags, mode) ==
    \/ tags = <<>>
    \/ mode = "and" /\ \A i \in 1..Len(tags) : ArrayIncludes(rowTags, ToLowerCase(tags[i]))
    \/ mode # "and" /\ \E i \in 1..Len(tags) : ArrayIncludes(rowTags, ToLowerCase(tags[i]))

StarsGroup(id, f) ==
    \/ f.stars = Null
    \/ f.stars = NoneString /\ ~RowFacts[id].stars.nan /\ RowFacts[id].stars.n < 1
    \/ f.stars.k = "num" /\ ~RowFacts[id].stars.nan /\ RowFacts[id].stars.n >= f.stars.n

YearGroup(id, f) ==
    \/ f.yearFrom = Null
    \/ /\ ~RowFacts[id].year.nan
       /\ RowFacts[id].year.n # 0
       /\ IF f.yearTo = Null THEN RowFacts[id].year.n = f.yearFrom.n
          ELSE /\ RowFacts[id].year.n >= Min(f.yearFrom.n, f.yearTo.n)
               /\ RowFacts[id].year.n <= Max(f.yearFrom.n, f.yearTo.n)

PassesEveryGroup(id, f) ==
    /\ QueryGroup(id, f)
    /\ TagGroup(RowFacts[id].techs, f.techs, f.techMatch)
    /\ TagGroup(RowFacts[id].refs, f.refs, f.refMatch)
    /\ StarsGroup(id, f)
    /\ YearGroup(id, f)

\* C1: after every updateFilters or clearAllFilters call a row is shown
\* exactly when it passes every active criterion group (query, technologies,
\* references, stars, year): the groups are conjunctive, and within the
\* technology and reference groups the match mode "and" asks for all tags and
\* any other mode for at least one.
C1_VisibleIffEveryGroup ==
    \A c \in Collections : \A i \in 1..Len(table[c]) :
        (~table[c][i].filteredOut) <=> PassesEveryGroup(table[c][i].id, filters[c])

\* Two technologies in "and" mode together with a stars threshold hide some
\* rows and keep others.
C1_Witness ==
    \E c \in Active :
        /\ IsOp("updateFilters", c)
        /\ Len(filters[c].techs) = 2
        /\ filters[c].techMatch = "and"
        /\ filters[c].stars # Null
        /\ visibleCount[c] \in 1..(Cardinality(RowIds) - 1)

\* C6: updateFilters is idempotent: from any reachable state, a second call
\* with the same update object leaves the filters, the rows shown and the
\* pills as the first call left them.
C6_UpdateFiltersIdempotent ==
    \A c \in Active : \A updates \in RawUpdates :
        LET once == updateFiltersFields(filters[c], updates)
            rowsOnce == FilterRows(table[c], once)
            twice == updateFiltersFields(once, updates)
            rowsTwice == FilterRows(rowsOnce, twice)
        IN /\ twice = once
           /\ rowsTwice = rowsOnce
           /\ buildPills(twice) = buildPills(once)

\* A call has left filters that hide rows, and repeating an update object
\* that names a property reproduces them.
C6_Witness ==
    \E c \in Active :
        /\ IsOp("updateFilters", c)
        /\ visibleCount[c] < Cardinality(RowIds)
        /\ Len(pills[c]) >= 2
        /\ \E updates \in RawUpdates :
              /\ "techs" \in updates.keys
              /\ filters[c].techs # <<>>
              /\ updateFiltersFields(filters[c], updates) = filters[c]

(***************************************************************************)
(* Properties: the advanced-search draft                                   *)
(***************************************************************************)
\* The handlers that edit inside the modal: search box, its timer, popover
\* triggers and options, checkboxes, OK, modal pills, Clear, clicks that
\* only close popovers.
ModalEditOps ==
    {"modalInput", "modalTimer", "modalClear", "trigger", "multiOk", "modalClick",
     "multiChange", "singleOption", "modalPill", "escapePanels"}

\* C2: an edit made inside the modal changes only the draft and the modal's
\* own controls: the live filters, the rows of the table with their
\* filtered-out marks, the visible count and the page pills are after the
\* edit what they were before it.
C2_EditsChangeOnlyDraft ==
    [][lastOp'.op \in ModalEditOps =>
           /\ filters' = filters
           /\ table' = table
           /\ visibleCount' = visibleCount
           /\ pills' = pills
           /\ filterInput' = filterInput]_vars

\* An option was picked in the open modal: the draft now differs from the
\* live filters, which are still those found at opening.
C2_Witness ==
    \E c \in Active :
        /\ IsOp("singleOption", c)
        /\ modalOpen[c]
        /\ drafts[c] # <<>>
        /\ drafts[c][1] # filters[c]
        /\ filters[c] = openSnapshot[c]

\* The modal of c no longer shows what it showed when it was opened.
EditedSinceOpen(c) == modalView[c] # RenderModal(cloneFilters(openSnapshot[c]))

\* C3: once the modal was opened, edited and closed through the close
\* button, a click outside or Escape with no popover open, the live filters
\* equal those at the moment of opening and the draft is gone.
C3_DiscardRestoresOpenFilters ==
    \A c \in Active :
        ((IsOp("closeClick", c) \/ IsOp("escapeModal", c)) /\ EditedSinceOpen(c))
            => (filters[c] = openSnapshot[c] /\ drafts[c] = <<>>)

\* C4: a click on Accept while a draft exists leaves every live filter field
\* equal to the draft's, removes the draft and closes the modal.
C4_AcceptCommitsDraft ==
    [][\A c \in Active :
           (lastOp' = Op("accept", c) /\ drafts[c] # <<>>)
               => (filters'[c] = drafts[c][1] /\ drafts'[c] = <<>> /\ ~modalOpen'[c])]_vars

\* Accept has replaced the filters found at opening by an edited draft.
C4_Witness ==
    \E c \in Active :
        /\ IsOp("accept", c)
        /\ filters[c] # openSnapshot[c]
        /\ filters[c].stars # Null
        /\ drafts[c] = <<>>
        /\ ~modalOpen[c]

YearPairOk(f) == f.yearTo # Null => f.yearFrom # Null

\* C5: in every reachable state the live filters of every collection have
\* yearTo non-null only if yearFrom is non-null, and so has every stored
\* draft.
C5_YearToNeedsYearFrom ==
    \A c \in Collections :
        /\ YearPairOk(filters[c])
        /\ drafts[c] # <<>> => YearPairOk(drafts[c][1])

\* A draft carries a year range picked in the two year popovers.
C5_Witness ==
    \E c \in Active :
        /\ IsOp("singleOption", c)
        /\ drafts[c] # <<>>
        /\ drafts[c][1].yearFrom # Null
        /\ drafts[c][1].yearTo \notin {Null, drafts[c][1].yearFrom}

(***************************************************************************)
(* Properties: the sort cycle                                              *)
(***************************************************************************)
RowOrder(c) == [i \in 1..Len(table[c]) |-> table[c][i].id]
OriginalOrder(c) == [i \in 1..Len(originalRows[c]) |-> originalRows[c][i].id]

\* The headers that carry an ascending or descending indicator.
Marked(c) == {h \in HeaderIds : ariaSort[c][h] # "none"}

\* Whether the sort key of row a is at most that of row b.
KeyAtMost(a, b, h, mode) ==
    IF Headers[h].dual /\ mode = "numeric"
    THEN parseInt(IF RowData[a].numeric = Absent THEN NumStr(0) ELSE RowData[a].numeric).n
            <= parseInt(IF RowData[b].numeric = Absent THEN NumStr(0) ELSE RowData[b].numeric).n
    ELSE IF Headers[h].dual /\ mode = "date"
    THEN DateValue(RowData[a].date).n <= DateValue(RowData[b].date).n
    ELSE IF Headers[h].dual
    THEN localeCompare(IF h = 0 THEN RowData[a].name ELSE RowData[a].note,
                       IF h = 0 THEN RowData[b].name ELSE RowData[b].note) <= 0
    ELSE localeCompare(getLowerText(RowData[a].author), getLowerText(RowData[b].author)) <= 0

Ascending(c, h, mode) ==
    \A i, j \in 1..Len(table[c]) : i < j => KeyAtMost(table[c][i].id, table[c][j].id, h, mode)

Descending(c, h, mode) ==
    \A i, j \in 1..Len(table[c]) : i < j => KeyAtMost(table[c][j].id, table[c][i].id, h, mode)

\* The table is sorted by header h in the given direction and mode, and the
\* state and the header say so.
SortedBy(c, h, direction, mode) ==
    /\ sort[c].columnIndex = h
    /\ sort[c].direction = direction
    /\ sort[c].mode = mode
    /\ ariaSort[c][h] = (IF direction = "asc" THEN "ascending" ELSE "descending")
    /\ IF direction = "asc" THEN Ascending(c, h, mode) ELSE Descending(c, h, mode)
    /\ {table[c][i].id : i \in 1..Len(table[c])} = RowIds

\* No column is sorted, no header is marked, the rows are in bind-time order.
Unsorted(c) ==
    /\ sort[c] = DefaultSort
    /\ Marked(c) = {}
    /\ RowOrder(c) = OriginalOrder(c)

\* The secondary metric of a dual-sort header.
SecondaryMode(h) == IF Headers[h].name = "App. URL" THEN "numeric" ELSE "date"

\* C7: on a regular sortable column, counting the clicks in a row on its
\* header from a state where it is not the sorted column, the first yields
\* ascending, the second descending, the third the original order with no
\* column marked, and the cycle repeats.
C7_RegularCycle ==
    \A c \in Collections : \A h \in HeaderIds :
        (~Headers[h].dual /\ clicks[c].header = h) =>
            /\ clicks[c].count = 1 => SortedBy(c, h, "asc", "text")
            /\ clicks[c].count = 2 => SortedBy(c, h, "desc", "text")
            /\ clicks[c].count = 0 => Unsorted(c)

\* The third click in a row on a regular header has just reset the order.
C7_Witness ==
    \E c \in Active : \E h \in HeaderIds :
        /\ ~Headers[h].dual
        /\ IsOp("handleSort", c)
        /\ clicks[c] = [header |-> h, count |-> 0, from |-> h]
        /\ \A i \in 1..Len(table[c]) : ~table[c][i].bound

C10_OneIndicator ==
    \A c \in Collections :
        /\ Cardinality(Marked(c)) <= 1
        /\ sort[c].direction = "null" => Marked(c) = {}
        /\ sort[c].direction # "null" =>
              /\ Marked(c) = {sort[c].columnIndex}
              /\ ariaSort[c][sort[c].columnIndex] =
                    (IF sort[c].direction = "asc" THEN "ascending" ELSE "descending")

\* A dual-sort column is sorted by its primary text, descending, and its
\* header is the only one marked.
C10_Witness ==
    \E c \in Active :
        /\ IsOp("handleSort", c)
        /\ sort[c].columnIndex \in HeaderIds
        /\ sort[c].direction = "desc"
        /\ sort[c].mode = "text"
        /\ Headers[sort[c].columnIndex].dual
        /\ Marked(c) = {sort[c].columnIndex}

(***************************************************************************)
(* C11: a burst of input events on a search box, each while the timer of   *)
(* the event before is still pending, is committed exactly once, with the  *)
(* value the input had at the last event: the timer of the page search bar *)
(* commits that value, trimmed, to the live query, the timer of the modal  *)
(* search box to the draft's query; no timer is pending next to another,   *)
(* no timer runs twice for one burst, and a pending timer does run.        *)
(***************************************************************************)
BurstCommitted(c) ==
    /\ Len(filterTimeout[c]) <= 1
    /\ Len(inputTimers[c]) <= 1
    /\ bursts[c].page.commits <= 1
    /\ bursts[c].modal.commits <= 1
    /\ filterTimeout[c] # <<>> => bursts[c].page = [bursts[c].page EXCEPT !.value = filterTimeout[c],
                                                                        !.commits = 0]
    /\ inputTimers[c] # <<>> => bursts[c].modal = [bursts[c].modal EXCEPT !.value = inputTimers[c],
                                                                         !.commits = 0]
    /\ IsOp("pageTimer", c) => /\ bursts[c].page.commits = 1
                               /\ filters[c].query = Trim(bursts[c].page.value[1])
    /\ IsOp("modalTimer", c) => /\ bursts[c].modal.commits = 1
                                /\ drafts[c] # <<>>
                                /\ drafts[c][1].query = Trim(bursts[c].modal.value[1])

C11_BurstCommitsLastValueOnce ==
    /\ [](\A c \in Active : BurstCommitted(c))
    /\ \A c \in Active :
        /\ (bursts[c].page.inputs > 0 /\ bursts[c].page.commits = 0) ~> (bursts[c].page.commits = 1)
        /\ (bursts[c].modal.inputs > 0 /\ bursts[c].modal.commits = 0) ~> (bursts[c].modal.commits = 1)

\* The timer ran after a burst of several events whose last value differs
\* from what the input shows now.
C11_Witness ==
    \E c \in Active :
        /\ IsOp("pageTimer", c)
        /\ bursts[c].page.inputs = 2
        /\ bursts[c].page.commits = 1
        /\ bursts[c].modal.inputs = 2
        /\ bursts[c].modal.commits = 1
        /\ filters[c].query = <<"A">>

(***************************************************************************)
(* C12: Escape pressed while a popover panel is open, the focus inside the *)
(* panel or elsewhere in the modal, closes the panel and leaves the modal  *)
(* open with its draft as it was; Escape closes the modal only when no     *)
(* panel is open.                                                          *)
(***************************************************************************)
EscapeOps == {"escapePanels", "escapeInPanel", "escapeModal"}

C12_EscapeClosesInnermost ==
    [][\A c \in Active :
        (lastOp'.op \in EscapeOps /\ lastOp'.c = c) =>
            IF panels[c] # {}
            THEN panels'[c] = {} /\ modalOpen'[c] /\ drafts'[c] = drafts[c]
            ELSE ~modalOpen'[c]]_vars

(***************************************************************************)
(* C13: in every reachable state at most one popover panel of a modal is   *)
(* open; a click on a trigger closes every other panel, opens the          *)
(* trigger's panel if it was closed and closes it if it was open.          *)
(***************************************************************************)
C13_AtMostOnePanel ==
    /\ [](\A c \in Active : Cardinality(panels[c]) <= 1)
    /\ [][\A c \in Active :
            (lastOp'.op = "trigger" /\ lastOp'.c = c) =>
                panels'[c] = IF lastOp'.arg.type \in panels[c] THEN {} ELSE {lastOp'.arg.type}]_vars

\* The trigger of the open panel was clicked: no panel is open.
C13_Witness ==
    \E c \in Active : IsOp("trigger", c) /\ modalOpen[c] /\ panels[c] = {}

(***************************************************************************)
(* C14: a click on an enabled option of a single-select panel sets the     *)
(* draft field of that panel to the option's value and closes that panel   *)
(* in the same step; a click on a disabled or hidden option changes        *)
(* neither the draft nor which panels are open.                            *)
(***************************************************************************)
\* The draft field a single-select panel edits.
PanelField(draft, type) ==
    IF type = "stars" THEN draft.stars
    ELSE IF type = "year-from" THEN draft.yearFrom
    ELSE IF type = "year-to" THEN draft.yearTo
    ELSE IF type = "tech-boolean" THEN draft.techMatch
    ELSE draft.refMatch

\* The filter value an option's data-value stands for.
OptionValue(type, value) ==
    IF type \in {"tech-boolean", "refs-boolean"} THEN value
    ELSE IF value = EmptyString THEN Null
    ELSE IF value = NoneString THEN NoneString
    ELSE Num(value.n)

C14_OptionAppliesAndCloses ==
    [][\A c \in Active :
        /\ (lastOp'.op = "singleOption" /\ lastOp'.c = c) =>
                /\ drafts'[c] # <<>>
                /\ PanelField(drafts'[c][1], lastOp'.arg.type)
                        = OptionValue(lastOp'.arg.type, lastOp'.arg.value[1])
                /\ lastOp'.arg.type \in panels[c]
                /\ panels'[c] = {}
        /\ (lastOp'.op = "inertOption" /\ lastOp'.c = c) =>
                /\ drafts'[c] = drafts[c]
                /\ panels'[c] = panels[c]
                /\ modalView'[c] = modalView[c]]_vars

\* The option 5 of the stars panel was clicked.
C14_Witness ==
    \E c \in Active :
        /\ IsOp("singleOption", c)
        /\ lastOp.arg.type = "stars"
        /\ lastOp.arg.value = <<NumStr(5)>>
        /\ drafts[c] # <<>>
        /\ drafts[c][1].stars = Num(5)
        /\ panels[c] = {}

(***************************************************************************)
(* C15: after every render of the modal the year-to trigger is disabled    *)
(* exactly when yearFrom of the rendered filters is null.  The draft is    *)
(* rendered when the modal is opened and after each edit of the draft, the *)
(* live filters each time they are applied while the modal has no open     *)
(* draft.                                                                  *)
(***************************************************************************)
DraftRenderOps == {"open", "modalTimer", "multiChange", "singleOption", "modalPill", "modalClear"}
LiveRenderOps == {"pageTimer", "clearClick", "pagePill", "updateFilters", "clearAllFilters"}

C15_YearToDisabledIffNoYearFrom ==
    [][\A c \in Active :
        /\ (lastOp'.op \in DraftRenderOps /\ lastOp'.c = c) =>
                /\ drafts'[c] # <<>>
                /\ modalView'[c].yearToDisabled <=> (drafts'[c][1].yearFrom = Null)
        /\ (lastOp'.op \in LiveRenderOps /\ lastOp'.c = c /\ ~(drafts[c] # <<>> /\ modalOpen[c])) =>
                modalView'[c].yearToDisabled <=> (filters'[c].yearFrom = Null)]_vars

\* The draft was rendered with a year-from: the year-to trigger is enabled.
C15_Witness ==
    \E c \in Active :
        /\ IsOp("singleOption", c)
        /\ lastOp.arg.type = "year-from"
        /\ drafts[c] # <<>>
        /\ drafts[c][1].yearFrom = Num(2020)
        /\ ~modalView[c].yearToDisabled

(***************************************************************************)
(* C16: each toggle of a checkbox of a multi-select panel sets the draft's *)
(* tag list of that panel to exactly the values checked after the toggle;  *)
(* closing the panel by its OK control or by a click elsewhere in the      *)
(* modal leaves the draft unchanged.                                       *)
(***************************************************************************)
\* The checkboxes of a panel that are checked in the modal.
Checked(c, type) == IF type = "tech" THEN modalView[c].techChecked ELSE modalView[c].refsChecked

\* The tag list of a draft a panel edits.
TagList(draft, type) == IF type = "tech" THEN draft.techs ELSE draft.refs

Toggled(set, value) == IF value \in set THEN set \ {value} ELSE set \cup {value}

C16_ToggleSetsTagList ==
    [][\A c \in Active :
        /\ (lastOp'.op = "multiChange" /\ lastOp'.c = c) =>
                LET type == lastOp'.arg.type
                    now == Toggled(Checked(c, type), lastOp'.arg.value[1])
                    list == TagList(drafts'[c][1], type)
                IN /\ drafts'[c] # <<>>
                   /\ {list[i] : i \in 1..Len(list)} = now
                   /\ Len(list) = Cardinality(now)
        /\ (lastOp'.op \in {"multiOk", "modalClick"} /\ lastOp'.c = c) =>
                /\ drafts'[c] = drafts[c]
                /\ panels'[c] = {}]_vars

\* The second technology checkbox was ticked: the draft lists both tags.
C16_Witness ==
    \E c \in Active :
        /\ IsOp("multiChange", c)
        /\ lastOp.arg.type = "tech"
        /\ drafts[c] # <<>>
        /\ Len(drafts[c][1].techs) = 2

(***************************************************************************)
(* C17: after every Tab or Shift+Tab keydown in the open modal the focus   *)
(* is on a focusable element of the innermost layer, the open panel if     *)
(* there is one and the dialog otherwise; Tab on the last focusable        *)
(* element of that layer moves the focus to its first, Shift+Tab on the    *)
(* first to its last.                                                      *)
(***************************************************************************)
\* The focusable elements of the innermost layer of the modal.
Layer(view, open) ==
    IF open # {} THEN getPanelFocusables(CHOOSE type \in open : TRUE)
    ELSE getFocusableElements(view, {})

C18_OpenClonesLiveFilters ==
    [][\A c \in Active :
        /\ (lastOp'.op = "open" /\ lastOp'.c = c) =>
                /\ drafts'[c] = <<filters[c]>>
                /\ filters'[c] = filters[c]
        /\ (lastOp'.op \in {"multiChange", "modalPill", "modalClear"} /\ lastOp'.c = c) =>
                /\ filters'[c].techs = filters[c].techs
                /\ filters'[c].refs = filters[c].refs]_vars

\* The modal was opened while a draft was left over from the opening before.
C18_Witness ==
    \E c \in Active :
        /\ IsOp("open", c)
        /\ lastOp.arg.type = "leftover"
        /\ drafts[c] = <<filters[c]>>
        /\ modalOpen[c]


\* The fields an update object does not name, yearTo aside, are kept.
UnnamedKept(old, new, updates) ==
    \A key \in (FilterKeys \ updates.keys) \ {"yearTo"} : new[key] = old[key]

\* What yearTo holds after an update.
YearToRule(old, new, updates) ==
    IF new.yearFrom = Null THEN new.yearTo = Null
    ELSE IF "yearFrom" \in updates.keys /\ "yearTo" \notin updates.keys
         THEN new.yearTo = new.yearFrom
         ELSE "yearTo" \notin updates.keys => new.yearTo = old.yearTo

\* C19: updateFilters changes only the filter fields named as keys of the
\* update object. Every other field keeps its value, except yearTo: it is
\* null when yearFrom ends up null, and equals yearFrom when the update names
\* yearFrom (a number after coercion) without naming yearTo.
C19_UpdateFiltersFrame ==
    \A c \in Active : \A updates \in RawUpdates :
        LET new == updateFiltersFields(filters[c], updates)
        IN /\ UnnamedKept(filters[c], new, updates)
           /\ YearToRule(filters[c], new, updates)
           /\ DOMAIN new = FilterKeys

\* Earlier calls have set a query, tags, an "and" match mode and a year
\* range whose end differs from its start; an update naming only yearFrom
\* then rewrites yearTo and nothing else that was not named.
C19_Witness ==
    \E c \in Active :
        /\ IsOp("updateFilters", c)
        /\ filters[c].query # <<>>
        /\ filters[c].techs # <<>>
        /\ filters[c].techMatch = "and"
        /\ filters[c].yearFrom # Null
        /\ filters[c].yearTo # filters[c].yearFrom
        /\ \E updates \in RawUpdates :
              /\ updates.keys = {"yearFrom"}
              /\ updateFiltersFields(filters[c], updates).yearFrom # Null
              /\ updateFiltersFields(filters[c], updates).yearTo # filters[c].yearTo

\* No value stands at two places of the list.
NoValueTwice(list) == \A i, j \in 1..Len(list) : list[i] = list[j] => i = j

\* Every value of the list is trimmed and not empty.
TrimmedNonEmpty(list) == \A i \in 1..Len(list) : list[i] = Trim(list[i]) /\ list[i] # <<>>

\* C20: after updateFilters is called with a techs or refs list, the stored
\* list holds each value trimmed, holds no empty string and holds no value
\* twice, whatever the input list was.
C20_TagListsNormalized ==
    \A c \in Active :
        IsOp("updateFilters", c) =>
            /\ TrimmedNonEmpty(filters[c].techs) /\ NoValueTwice(filters[c].techs)
            /\ TrimmedNonEmpty(filters[c].refs) /\ NoValueTwice(filters[c].refs)

\* The part of C20 the code keeps: stored values are trimmed and not empty.
TagListsTrimmedNonEmpty ==
    \A c \in Active : TrimmedNonEmpty(filters[c].techs) /\ TrimmedNonEmpty(filters[c].refs)

(***************************************************************************)
(* Properties: the shape of the live filters                               *)
(***************************************************************************)
\* The characters strings are made of.
Chars == {" ", "a", "A", "b", "B", "d", "g", "j", "p", "P", "|"}

IsString(v) == v \in Seq(Chars)
IsList(v) == DOMAIN v = 1..Len(v) /\ \A i \in 1..Len(v) : IsString(v[i])
IsFiniteNumber(v) == v.k = "num" /\ v.n \in Int

WellTyped(f) ==
    /\ DOMAIN f = FilterKeys
    /\ IsString(f.query) /\ Trim(f.query) = f.query
    /\ IsList(f.techs) /\ IsList(f.refs)
    /\ f.stars = Null \/ f.stars = NoneString \/ IsFiniteNumber(f.stars)
    /\ f.yearFrom = Null \/ IsFiniteNumber(f.yearFrom)
    /\ f.yearTo = Null \/ IsFiniteNumber(f.yearTo)
    /\ f.techMatch \in {"and", "or"} /\ f.refMatch \in {"and", "or"}

\* C21: in every reachable state the live filters of every collection hold
\* all eight fields, well-typed: query a trimmed string, techs and refs
\* lists of strings, stars null, "none" or a finite number, yearFrom and
\* yearTo null or a finite number, techMatch and refMatch "and" or "or"; a
\* match mode other than "and" is stored as "or".
C21_FiltersWellTyped ==
    /\ \A c \in Collections : WellTyped(filters[c])
    /\ \A c \in Active : \A updates \in RawUpdates :
          LET new == updateFiltersFields(filters[c], updates)
          IN /\ ("techMatch" \in updates.keys /\ updates.techMatch # "and") => new.techMatch = "or"
             /\ ("refMatch" \in updates.keys /\ updates.refMatch # "and") => new.refMatch = "or"

\* Calls have stored a query, a tag, a star threshold coerced from a string
\* and a year, and a call with the match mode "xor" leaves "or".
C21_Witness ==
    \E c \in Active :
        /\ IsOp("updateFilters", c)
        /\ filters[c].query # <<>>
        /\ filters[c].techs # <<>>
        /\ filters[c].stars = Num(5)
        /\ filters[c].yearFrom # Null
        /\ \E updates \in RawUpdates :
              /\ "techMatch" \in updates.keys /\ updates.techMatch = "xor"
              /\ updateFiltersFields(filters[c], updates).techMatch = "or"

(***************************************************************************)
(* Properties: pills                                                       *)
(***************************************************************************)
\* The pills of one type, in the order rendered.
PillsOf(p, type) == SelectSeq(p, LAMBDA pill : pill.type = type)

\* The number of pills of a type that carry a value.
PillCount(p, type, value) == Cardinality({i \in 1..Len(p) : p[i].type = type /\ p[i].value = value})

\* Every tag of the list has exactly one pill, and every pill of the type
\* carries a tag of the list.
OnePillPerTag(p, type, tags) ==
    /\ \A i \in 1..Len(tags) : PillCount(p, type, tags[i]) = 1
    /\ \A i \in 1..Len(p) : p[i].type = type => ArrayIncludes(tags, p[i].value)

\* The pills that are not tag pills: one for the query, one for the stars,
\* one for the year or year range.
ScalarPills(p, f) ==
    /\ PillsOf(p, "query") = (IF f.query # <<>> THEN <<Pill("query", f.query, 0, 0)>> ELSE <<>>)
    /\ Len(PillsOf(p, "stars")) = (IF f.stars # Null THEN 1 ELSE 0)
    /\ Len(PillsOf(p, "year")) = (IF f.yearFrom # Null THEN 1 ELSE 0)
    /\ \A i \in 1..Len(p) : p[i].type \in {"query", "tech", "refs", "stars", "year"}
    /\ f = getDefaultFilters => p = <<>>

\* C22: after every filter application the pill list holds exactly one pill
\* per active filter value: one for a non-empty query, one per selected tech
\* tag, one per selected refs tag, one for a non-null stars value, one for
\* the year or year range when yearFrom is not null; none with default
\* filters.
C22_OnePillPerValue ==
    \A c \in Active :
        /\ ScalarPills(pills[c], filters[c])
        /\ OnePillPerTag(pills[c], "tech", filters[c].techs)
        /\ OnePillPerTag(pills[c], "refs", filters[c].refs)

\* The part of C22 that holds for every stored list: one pill per entry of
\* the tag lists, in list order, and the pills that are not tag pills.
PillPerListEntry ==
    \A c \in Active :
        /\ ScalarPills(pills[c], filters[c])
        /\ PillsOf(pills[c], "tech") = [i \in 1..Len(filters[c].techs) |-> Pill("tech", filters[c].techs[i], 0, 0)]
        /\ PillsOf(pills[c], "refs") = [i \in 1..Len(filters[c].refs) |-> Pill("refs", filters[c].refs[i], 0, 0)]

(***************************************************************************)
(* Properties: clearAllFilters                                             *)
(***************************************************************************)
\* The step is a call of clearAllFilters that resets the sort state
\* (clear button, or resetSort not false), or one that keeps it.
ClearsWithSortReset(c) ==
    /\ lastOp'.c = c
    /\ \/ lastOp'.op = "clearClick"
       \/ lastOp'.op = "clearAllFilters" /\ lastOp'.arg.type = "resetSort"

ClearsKeepingSort(c) ==
    lastOp'.c = c /\ lastOp'.op = "clearAllFilters" /\ lastOp'.arg.type = "keepSort"

\* C23: after clearAllFilters the live filters are the default filters and
\* every row is visible; a query typed in the page search bar whose debounce
\* had not fired is cancelled and is never applied afterwards (a timer is
\* pending only after a later input event, and the timer applies the value
\* of that event). With resetSort not false the sort state is cleared and
\* the rows are in bind-time order; with resetSort false the sort state and
\* the row order are unchanged.
C23_ClearAllFilters ==
    [][\A c \in Active :
        /\ (ClearsWithSortReset(c) \/ ClearsKeepingSort(c)) =>
              /\ filters'[c] = getDefaultFilters
              /\ Len(table'[c]) = Cardinality(RowIds)
              /\ \A i \in 1..Len(table'[c]) : ~table'[c][i].filteredOut
              /\ visibleCount'[c] = Cardinality(RowIds)
              /\ filterTimeout'[c] = <<>>
              /\ filterInput'[c] = <<>>
        /\ ClearsWithSortReset(c) =>
              /\ sort'[c] = DefaultSort
              /\ \A h \in HeaderIds : ariaSort'[c][h] = "none" /\ modeIndicator'[c][h] = ""
              /\ \A i \in 1..Len(table'[c]) : table'[c][i].id = originalRows'[c][i].id
        /\ ClearsKeepingSort(c) =>
              /\ sort'[c] = sort[c] /\ ariaSort'[c] = ariaSort[c] /\ modeIndicator'[c] = modeIndicator[c]
              /\ \A i \in 1..Len(table'[c]) : table'[c][i].id = table[c][i].id
        /\ (filterTimeout[c] = <<>> /\ filterTimeout'[c] # <<>>) =>
              lastOp'.op = "pageInput" /\ filterTimeout'[c] = <<filterInput'[c]>>
        /\ (lastOp'.op = "pageTimer" /\ lastOp'.c = c) =>
              filterTimeout[c] # <<>> /\ filters'[c].query = Trim(filterTimeout[c][1])]_vars

\* clearAllFilters with resetSort false has run on a table that is sorted
\* and out of bind-time order while a typed query was waiting for its timer.
C23_Witness ==
    \E c \in Active :
        /\ IsOp("clearAllFilters", c) /\ lastOp.arg.type = "keepSort"
        /\ sort[c].columnIndex # NullIndex
        /\ RowOrder(c) # OriginalOrder(c)
        /\ bursts[c].page.inputs > 0 /\ bursts[c].page.commits = 0
        /\ filterTimeout[c] = <<>>

(***************************************************************************)
(* Properties: the row elements                                            *)
(***************************************************************************)
\* C24: the table holds the same row elements as at bind time, whatever
\* filter updates, header clicks, sort resets and clearAllFilters calls have
\* run; only their order and their filtered-out marking change.
C24_RowElementsKept ==
    \A c \in Active :
        /\ Len(table[c]) = Cardinality(RowIds)
        /\ {table[c][i].id : i \in 1..Len(table[c])} = RowIds
        /\ \A i \in 1..Len(table[c]) : table[c][i].bound

\* The part of C24 the code keeps: the table shows every row of bind time
\* once, as the bind-time element or as a copy of it.
RowContentKept ==
    \A c \in Active :
        /\ Len(table[c]) = Cardinality(RowIds)
        /\ {table[c][i].id : i \in 1..Len(table[c])} = RowIds

(***************************************************************************)
(* Properties: initialization                                              *)
(***************************************************************************)
InitOps == {"initFilteringSorting", "initModal", "initOpenButtons"}

\* Everything but the record of the handler that ran last.
StateBeyondLastOp ==
    <<filters, table, originalRows, visibleCount, pills, filterInput, filterTimeout,
      sort, ariaSort, modeIndicator, drafts, modalOpen, panels, modalView, inputTimers,
      openSnapshot, clicks, events, bursts, focus, dataset, listeners, scroll>>

\* C25: initialization is idempotent. Every element carries at most one
\* set of listeners, so one user event runs a handler once; a repeated
\* call of initFilteringSorting, initModal or initOpenButtons leaves the
\* state as it was; and once the table is bound the bind-time snapshot of
\* the rows is never replaced, also by a call made after the table was
\* sorted.
C25_InitIdempotent ==
    /\ [](\A c \in Active : \A el \in Listened : listeners[c][el] <= 1)
    /\ [][\A c \in Active :
            /\ (lastOp'.op \in InitOps /\ lastOp'.c = c /\ lastOp'.arg.type = "repeat") =>
                    StateBeyondLastOp' = StateBeyondLastOp
            /\ "wrapper" \in dataset[c] => originalRows'[c] = originalRows[c]]_vars

\* initFilteringSorting has been called again on a bound table that is
\* sorted and out of bind-time order while filters hide rows; the snapshot
\* still has the bind-time order.
C25_Witness ==
    \E c \in Active :
        /\ IsOp("initFilteringSorting", c) /\ lastOp.arg.type = "repeat"
        /\ sort[c].columnIndex # NullIndex
        /\ RowOrder(c) # OriginalOrder(c)
        /\ OriginalOrder(c) = [i \in RowIds |-> i]
        /\ visibleCount[c] < Cardinality(RowIds)
        /\ \A el \in Listened : listeners[c][el] = 1

(***************************************************************************)
(* Properties: the scroll helper                                           *)
(***************************************************************************)
ScrollKeys == {"ArrowLeft", "ArrowRight", "Home", "End", "PageUp", "PageDown"}

\* Interactive children of the wrapper, and text inputs anywhere.
LeftAlone == {"link", "input", "outer input"}

\* C26: a press of an arrow key, Home, End, PageUp or PageDown whose target
\* is an interactive child of the table wrapper or a text input is never
\* consumed by the scroll helper: neither the wrapper's own key handler nor
\* the window's hovered-wrapper handler prevents the default action or
\* scrolls the wrapper.
C26_KeysLeftToInteractive ==
    [][\A c \in Active :
        (/\ lastOp'.op = "keydown" /\ lastOp'.c = c
         /\ lastOp'.arg.type \in LeftAlone
         /\ lastOp'.arg.value[1] \in ScrollKeys) =>
            /\ ~scroll'[c].prevented
            /\ scroll'[c].left = scroll[c].left
            /\ scroll'[c].top = scroll[c].top]_vars

\* The part of C26 the code keeps: the window's hovered-wrapper handler
\* leaves every key alone whose target is interactive, editable or inside
\* the wrapper; such a key is only consumed when its target is inside the
\* wrapper, by the wrapper's own handler.
GlobalHandlerLeavesKeys ==
    [][\A c \in Active :
        (/\ lastOp'.op = "keydown" /\ lastOp'.c = c
         /\ lastOp'.arg.type \in {"outer input", "outer button"}) =>
            /\ ~scroll'[c].prevented
            /\ scroll'[c].left = scroll[c].left
            /\ scroll'[c].top = scroll[c].top]_vars

(***************************************************************************)
(* Properties: collections                                                 *)
(***************************************************************************)
\* C27: the state record of a collection, with its filters object, is its
\* own: a filter update, sort click, draft edit or debounce timer of one
\* collection never changes the filters, the sort state, the row order or
\* the row visibility of another collection.
C27_CollectionsIsolated ==
    [][\A c \in Collections : \A d \in Collections \ {c} :
        lastOp'.c = c =>
            /\ filters'[d] = filters[d]
            /\ sort'[d] = sort[d] /\ ariaSort'[d] = ariaSort[d] /\ modeIndicator'[d] = modeIndicator[d]
            /\ table'[d] = table[d]
            /\ visibleCount'[d] = visibleCount[d]
            /\ originalRows'[d] = originalRows[d]
            /\ pills'[d] = pills[d]]_vars

\* Both collections carry filters, different ones, that hide rows; one is
\* sorted and the other is not; the handler that ran last belongs to the
\* collection that is not sorted.
C27_Witness ==
    \E c \in Collections : \E d \in Collections \ {c} :
        /\ lastOp.c = c
        /\ filters[c] # getDefaultFilters /\ filters[d] # getDefaultFilters
        /\ filters[c] # filters[d]
        /\ visibleCount[c] < Cardinality(RowIds) /\ visibleCount[d] < Cardinality(RowIds)
        /\ sort[d].columnIndex # NullIndex /\ sort[c].columnIndex = NullIndex

\* C28: the collection "aotd" is never wired: none of its elements carries a
\* marker or a listener of the controls binder, and whatever is called with
\* its name every row stays shown, in the order of the markup.
C28_AotdNotWired ==
    /\ dataset["aotd"] = {}
    /\ \A el \in Listened : listeners["aotd"][el] = 0
    /\ originalRows["aotd"] = <<>>
    /\ table["aotd"] = [i \in RowIds |-> [id |-> i, bound |-> TRUE, filteredOut |-> FALSE]]

\* updateFilters has stored, for "aotd", filters that no row of its table
\* matches.
C28_Witness ==
    /\ IsOp("updateFilters", "aotd")
    /\ \A i \in RowIds : FilterRows(table["aotd"], filters["aotd"])[i].filteredOut

(***************************************************************************)
(* Properties: the stars and year criteria                                 *)
(***************************************************************************)
\* The star count in the markup of row id: no data-filter-stars counts as 0.
StarCount(id) == IF RowData[id].stars = Absent THEN 0 ELSE RowData[id].stars.n

StarsRule(id, stars) ==
    \/ stars = Null
    \/ stars = NoneString /\ StarCount(id) = 0
    \/ stars.k = "num" /\ StarCount(id) >= stars.n

\* The filters f with every criterion but the stars inactive.
OnlyStars(f) == f.query = <<>> /\ f.techs = <<>> /\ f.refs = <<>> /\ f.yearFrom = Null

\* C29: stars "none" passes exactly the rows whose star count is 0, a row
\* without the attribute included; a numeric threshold passes exactly the
\* rows with at least that many stars; stars null passes every row.  No row
\* failing the criterion is shown, and with the other criteria inactive the
\* rows shown are exactly those passing it.
C29_StarsCriterion ==
    \A c \in Active : \A i \in 1..Len(table[c]) :
        /\ ~table[c][i].filteredOut => StarsRule(table[c][i].id, filters[c].stars)
        /\ OnlyStars(filters[c]) =>
               (~table[c][i].filteredOut <=> StarsRule(table[c][i].id, filters[c].stars))

\* A threshold alone: the rows shown include one with exactly that many
\* stars and leave out the others below it.
C29_Witness ==
    \E c \in Active :
        /\ IsOp("updateFilters", c)
        /\ OnlyStars(filters[c])
        /\ filters[c].stars.k = "num"
        /\ \E i \in RowIds : ~table[c][i].filteredOut /\ StarCount(table[c][i].id) = filters[c].stars.n
        /\ \E i \in RowIds : table[c][i].filteredOut

\* stars "none" alone: the row without the attribute and the row with 0
\* stars are the rows shown.
StarlessShown ==
    \E c \in Active :
        /\ filters[c].stars = NoneString
        /\ OnlyStars(filters[c])
        /\ \E i \in RowIds : ~table[c][i].filteredOut /\ RowData[table[c][i].id].stars = Absent
        /\ visibleCount[c] = 2

\* The year in the markup of row id lies between a and b, in either order.
YearWithin(id, a, b) ==
    /\ RowData[id].year.k = "numstr"
    /\ RowData[id].year.n >= Min(a, b)
    /\ RowData[id].year.n <= Max(a, b)

YearRule(id, f) ==
    \/ f.yearFrom = Null
    \/ /\ f.yearTo \in {Null, f.yearFrom}
       /\ RowData[id].year = NumStr(f.yearFrom.n)
    \/ /\ f.yearTo \notin {Null, f.yearFrom}
       /\ YearWithin(id, f.yearFrom.n, f.yearTo.n)

\* The filters f with every criterion but the year inactive.
OnlyYear(f) == f.query = <<>> /\ f.techs = <<>> /\ f.refs = <<>> /\ f.stars = Null

\* C30: with yearFrom set and yearTo null or equal to it a row passes the
\* year criterion exactly when its year is yearFrom; with a different yearTo
\* exactly when its year lies between the smaller and the larger of the two,
\* bounds included; a row without a year that parses fails whenever yearFrom
\* is set.  No row failing the criterion is shown, and with the other
\* criteria inactive the rows shown are exactly those passing it.
C30_YearCriterion ==
    \A c \in Active : \A i \in 1..Len(table[c]) :
        /\ ~table[c][i].filteredOut => YearRule(table[c][i].id, filters[c])
        /\ filters[c].yearFrom # Null /\ RowData[table[c][i].id].year = Absent
               => table[c][i].filteredOut
        /\ OnlyYear(filters[c]) =>
               (~table[c][i].filteredOut <=> YearRule(table[c][i].id, filters[c]))

\* A range given with the larger year first: rows at both bounds are shown,
\* a row with a year outside it and the row without a year are hidden.
C30_Witness ==
    \E c \in Active :
        /\ IsOp("updateFilters", c)
        /\ OnlyYear(filters[c])
        /\ filters[c].yearFrom # Null /\ filters[c].yearTo # Null
        /\ filters[c].yearFrom.n > filters[c].yearTo.n
        /\ \E i \in RowIds : ~table[c][i].filteredOut /\ RowData[table[c][i].id].year.n = filters[c].yearFrom.n
        /\ \E i \in RowIds : table[c][i].filteredOut /\ RowData[table[c][i].id].year.k = "numstr"
        /\ \E i \in RowIds : table[c][i].filteredOut /\ RowData[table[c][i].id].year = Absent

\* yearFrom alone with yearTo null: the rows of that year are the rows shown.
SingleYearShown ==
    \E c \in Active :
        /\ filters[c].yearFrom # Null /\ filters[c].yearTo = Null
        /\ OnlyYear(filters[c])
        /\ visibleCount[c] = 2

(***************************************************************************)
(* Properties: sorting by a numeric or date key                            *)
(***************************************************************************)
\* The rows of the table of c as a bag of row ids.
RowBag(tbl) == [id \in {tbl[i].id : i \in 1..Len(tbl)} |->
                    Cardinality({i \in 1..Len(tbl) : tbl[i].id = id})]

\* Header h of c has just been clicked into the numeric or date mode.
SortedByMetric(c, h) ==
    /\ IsOp("handleSort", c)
    /\ Headers[h].dual
    /\ sort[c].columnIndex = h
    /\ sort[c].mode \in {"numeric", "date"}

\* C31: a click that sorts a dual-sort column by its numeric or date key
\* leaves the same rows, in non-decreasing order of the key for asc and
\* non-increasing order for desc, a missing numeric attribute counting as 0
\* and a missing or unparseable date as the earliest date, the one of
\* new Date(0).
C31_SortedByMetric ==
    /\ [](\A c \in Active : \A h \in HeaderIds :
            SortedByMetric(c, h) =>
                IF sort[c].direction = "asc" THEN Ascending(c, h, sort[c].mode)
                ELSE Descending(c, h, sort[c].mode))
    /\ [][\A c \in Active : RowBag(table'[c]) = RowBag(table[c])]_vars

\* Rows with a parseable date and a missing date have been sorted by date.
SortedParseableDates ==
    \E c \in Active : \E h \in HeaderIds :
        /\ SortedByMetric(c, h)
        /\ sort[c].mode = "date"
        /\ \E i, j \in 1..Len(table[c]) :
            /\ RowData[table[c][i].id].date = Absent
            /\ RowData[table[c][j].id].date.k = "numstr"
            /\ RowOrder(c) # OriginalOrder(c)

(***************************************************************************)
(* Properties: the pills of the page filter bar                            *)
(***************************************************************************)
\* The filters f without the value the pill of the given type and value
\* stands for.
WithoutPill(f, type, value) ==
    IF type = "query" THEN [f EXCEPT !.query = <<>>]
    ELSE IF type = "tech" THEN [f EXCEPT !.techs = SelectSeq(f.techs, LAMBDA item : item # value)]
    ELSE IF type = "refs" THEN [f EXCEPT !.refs = SelectSeq(f.refs, LAMBDA item : item # value)]
    ELSE IF type = "stars" THEN [f EXCEPT !.stars = Null]
    ELSE [f EXCEPT !.yearFrom = Null, !.yearTo = Null]

\* C32: a click on a pill of the page filter bar removes the value the pill
\* stands for (the query, that technology, that reference, the stars value,
\* or both year bounds) and changes no other filter field; afterwards no
\* pill of that type and value is left.
C32_PillRemovesItsValue ==
    [][\A c \in Active :
        lastOp'.op = "pagePill" /\ lastOp'.c = c =>
            /\ filters'[c] = WithoutPill(filters[c], lastOp'.arg.type, lastOp'.arg.value)
            /\ \A i \in 1..Len(pills'[c]) :
                ~(pills'[c][i].type = lastOp'.arg.type /\ pills'[c][i].value = lastOp'.arg.value)
      ]_vars

\* The pill of one of two technologies has been clicked while a query, a
\* stars value and a year were set: the other technology and those stay.
C32_Witness ==
    \E c \in Active :
        /\ IsOp("pagePill", c)
        /\ lastOp.arg.type = "tech"
        /\ Len(filters[c].techs) = 1
        /\ filters[c].query # <<>>
        /\ filters[c].stars # Null
        /\ filters[c].yearFrom # Null
        /\ Len(pills[c]) = 4

(***************************************************************************)
(* Properties: panning                                                     *)
(***************************************************************************)
\* The scrollable range of the wrapper of c.
ScrollRange(c) ==
    [left |-> ScrollGeometry(scroll[c].layout).scrollWidth - ScrollGeometry(scroll[c].layout).clientWidth,
     top |-> ScrollGeometry(scroll[c].layout).scrollHeight - ScrollGeometry(scroll[c].layout).clientHeight]

\* C33: panning starts only on a pointer-down with the middle button, or
\* with the left button and Alt, on a target that is not interactive; while
\* panning a move of the panning pointer puts the scroll offsets at the start
\* offsets minus the distance the pointer has moved, as far as the
\* scrollable range allows, and a move of another pointer or while not
\* panning changes nothing; pointer-up, pointer-cancel and a lost pointer
\* capture always end panning.
C33_Panning ==
    [][\A c \in Active :
        LET s == scroll[c]
            t == scroll'[c]
            e == lastOp'.arg.value
        IN /\ (t.isPanning /\ (~s.isPanning \/ t.pointerId # s.pointerId)) =>
                /\ lastOp'.op = "pointerdown"
                /\ ~isInteractiveTarget(lastOp'.arg.type)
                /\ e[4] = 1 \/ (e[4] = 0 /\ e[5] = 1)
                /\ t.pointerId = e[1]
           /\ lastOp'.op = "pointermove" =>
                IF s.isPanning /\ e[1] = s.pointerId
                THEN /\ t.left = Max(0, Min(s.startLeft - (e[2] - s.startX), ScrollRange(c).left))
                     /\ t.top = Max(0, Min(s.startTop - (e[3] - s.startY), ScrollRange(c).top))
                     /\ t.isPanning
                ELSE t = [s EXCEPT !.prevented = FALSE]
           /\ lastOp'.op \in {"pointerup", "pointercancel", "lostpointercapture"} => ~t.isPanning
      ]_vars

\* A pan is under way that has moved the table in both directions, with
\* the pointer that started it.
C33_Witness ==
    \E c \in Active :
        /\ lastOp.op = "pointermove"
        /\ scroll[c].isPanning
        /\ scroll[c].pointerId = lastOp.arg.value[1]
        /\ scroll[c].left = 50 /\ scroll[c].top = 100
        /\ scroll[c].startLeft = 100 /\ scroll[c].startTop = 200

(***************************************************************************)
(* Properties: the wheel                                                   *)
(***************************************************************************)
\* The wheel event of lastOp' has scrolled the wrapper of c sideways by
\* delta, as far as the scrollable range allows, and was prevented.
ScrolledSideways(c, delta) ==
    /\ scroll'[c].prevented
    /\ scroll'[c].left = Max(0, Min(scroll[c].left + delta, ScrollRange(c).left))
    /\ scroll'[c].top = scroll[c].top

\* The wheel event of lastOp' was left to the browser.
WheelLeftAlone(c) == ~scroll'[c].prevented /\ scroll'[c].left = scroll[c].left

\* What the wheel rules below share: the vertical wheel without Shift, and
\* the wrapper without horizontal overflow.  A wheel event is vertical when
\* its horizontal delta is not the larger one.
WheelRules(c, shiftRule(_, _)) ==
    LET g == ScrollGeometry(scroll[c].layout)
        hasX == g.scrollWidth > g.clientWidth + 1
        hasY == g.scrollHeight > g.clientHeight + 1
        atEdge == scroll[c].top <= 0 \/ scroll[c].top + g.clientHeight >= g.scrollHeight - 1
        mode == lastOp'.arg.type
        dx == lastOp'.arg.value[1]
        dy == lastOp'.arg.value[2]
        shift == lastOp'.arg.value[3] = 1
        wide(d) == IF d < 0 THEN -d ELSE d
    IN (lastOp'.op = "wheel" /\ lastOp'.c = c) =>
        /\ (hasX /\ shift /\ dy # 0) => shiftRule(dx, dy)
        /\ (hasX /\ ~shift /\ dy # 0 /\ wide(dx) <= wide(dy)) =>
                /\ mode = "always" => ScrolledSideways(c, dy)
                /\ mode = "edge" =>
                        IF ~hasY \/ atEdge THEN ScrolledSideways(c, dy) ELSE WheelLeftAlone(c)
        /\ ~hasX => WheelLeftAlone(c)

\* C34 as stated: on a wrapper that overflows horizontally a wheel event
\* with Shift and a non-zero vertical delta always scrolls horizontally by
\* that delta; without Shift a vertical wheel event is redirected in mode
\* "always", and in mode "edge" exactly when there is no vertical overflow or
\* the wrapper is at its top or bottom edge; without horizontal overflow no
\* wheel event is redirected or prevented.
C34_WheelAsStated ==
    [][\A c \in Active :
        LET byVertical(dx, dy) == ScrolledSideways(c, dy)
        IN WheelRules(c, byVertical)]_vars

\* C34: as stated, except that a wheel event with Shift whose horizontal
\* delta is larger than its vertical delta scrolls horizontally by the
\* horizontal delta.
C34_WheelRedirection ==
    [][\A c \in Active :
        LET byLarger(dx, dy) ==
                ScrolledSideways(c, IF (IF dx < 0 THEN -dx ELSE dx) > (IF dy < 0 THEN -dy ELSE dy)
                                    THEN dx ELSE dy)
        IN WheelRules(c, byLarger)]_vars

\* In mode "edge" a vertical wheel event without Shift was left to the
\* browser: the wrapper overflows both ways and is between its edges.
C34_Witness ==
    \E c \in Active :
        /\ IsOp("wheel", c)
        /\ lastOp.arg.type = "edge"
        /\ lastOp.arg.value = <<0, 40, 0>>
        /\ scroll[c].layout = "wide and long table"
        /\ scroll[c].top = 120
        /\ ~scroll[c].prevented

\* A wheel event with Shift and both deltas has scrolled the wrapper by the
\* horizontal one.
ShiftWheelSideways ==
    \E c \in Active :
        /\ IsOp("wheel", c)
        /\ lastOp.arg.value = <<60, 40, 1>>
        /\ scroll[c].left = 60

(***************************************************************************)
(* Properties: the rows after a sort reset                                 *)
(***************************************************************************)
\* C35: on a bound collection state.visibleCount is the number of rows of
\* its table that are not marked filtered-out, after every filter
\* application and after every later sort, sort reset and clear.
C35_VisibleCountIsCount ==
    \A c \in Active :
        visibleCount[c] = Cardinality({i \in 1..Len(table[c]) : ~table[c][i].filteredOut})

\* A header click has sorted a table in which a query hides some rows.
C35_Witness ==
    \E c \in Active :
        /\ IsOp("handleSort", c)
        /\ sort[c].direction = "desc"
        /\ RowOrder(c) # OriginalOrder(c)
        /\ filters[c].query # <<>>
        /\ visibleCount[c] \in 1..(Len(table[c]) - 1)

\* The sort of c has just been reset: by the click that ends a cycle, or
\* by clearAllFilters.
SortJustReset(c) ==
    /\ sort[c] = DefaultSort
    /\ \/ IsOp("handleSort", c)
       \/ IsOp("clearAllFilters", c) /\ lastOp.arg.type = "resetSort"
       \/ IsOp("clearClick", c)

\* C36: when the click that ends a sort cycle, or clearAllFilters, has reset
\* the sort, the rows restored from the bind-time snapshot are shown or
\* hidden as the live filters ask: every row that fails them is hidden, and
\* the rows are in the order of the snapshot.
C36_ResetRowsFiltered ==
    \A c \in Active :
        SortJustReset(c) =>
            /\ RowOrder(c) = OriginalOrder(c)
            /\ \A i \in 1..Len(table[c]) :
                ~PassesEveryGroup(table[c][i].id, filters[c]) => table[c][i].filteredOut

\* The third click on a regular header has restored the snapshot rows while
\* a query was active: the restored rows that fail it are hidden.
C36_Witness ==
    \E c \in Active :
        /\ IsOp("handleSort", c)
        /\ sort[c] = DefaultSort
        /\ filters[c].query # <<>>
        /\ \A i \in 1..Len(table[c]) : ~table[c][i].bound
        /\ \E i \in 1..Len(table[c]) : table[c][i].filteredOut
        /\ \E i \in 1..Len(table[c]) : ~table[c][i].filteredOut

(***************************************************************************)
(* Properties: a filter update leaves the sort alone                       *)
(***************************************************************************)
\* The handlers that end in a call of updateFilters: the call itself, the
\* page debounce timer, a page pill and Accept with a draft.
FilterUpdateOps == {"updateFilters", "pageTimer", "pagePill", "accept"}

\* C37: a filter update never changes the sort: across every updateFilters
\* call, debounce-timer firing, pill removal and Accept, the order of the
\* rows in the table, state.sort and the indicators of the headers are the
\* same after the step as before it.
C37_UpdateKeepsSort ==
    [][\A c \in Active :
        (lastOp'.c = c /\ lastOp'.op \in FilterUpdateOps) =>
            /\ RowOrder(c)' = RowOrder(c)
            /\ sort'[c] = sort[c]
            /\ ariaSort'[c] = ariaSort[c]
            /\ modeIndicator'[c] = modeIndicator[c]]_vars

\* A filter update has hidden rows of a table that is sorted in an order
\* other than the one of the snapshot, and the sort is still in place.
C37_Witness ==
    \E c \in Active :
        /\ lastOp.c = c /\ lastOp.op \in FilterUpdateOps
        /\ sort[c] # DefaultSort
        /\ Marked(c) # {}
        /\ RowOrder(c) # OriginalOrder(c)
        /\ \E i \in 1..Len(table[c]) : table[c][i].filteredOut

(***************************************************************************)
(* Properties: debounce timers that outlive what started them              *)
(***************************************************************************)
\* C38: a draft is stored for a collection only while its modal is open: in
\* every state in which the modal is closed no draft exists for it, also
\* after a modal debounce timer that was pending at the close has fired.
C38_NoDraftWhileClosed ==
    \A c \in Collections : ~modalOpen[c] => drafts[c] = <<>>

\* The part of C38 that the code keeps: the handler that closes the modal
\* (Accept, the close button, Escape, the opening of another modal) leaves
\* no draft, and while the modal is closed only the modal debounce timer
\* stores one.
DraftGoneAtClose ==
    [][\A c \in Collections :
        (~modalOpen'[c] /\ drafts'[c] # <<>> /\ (modalOpen[c] \/ drafts[c] = <<>>)) =>
            (~modalOpen[c] /\ lastOp'.op = "modalTimer" /\ lastOp'.c = c)]_vars

\* Accept of c commits, as live query, the trimmed text that its search box
\* holds when the button is clicked.
AcceptCommitsSearchText(c) ==
    (lastOp'.op = "accept" /\ lastOp'.c = c) => filters'[c].query = Trim(modalView[c].searchInput)

\* C39: when the user has typed into the modal search box and clicks Accept,
\* the committed live query is the text of the search box at the click,
\* whether or not the debounce window of the last keystroke had elapsed.
C39_AcceptCommitsTypedText ==
    [][\A c \in Active : AcceptCommitsSearchText(c)]_vars

\* The part of C39 that the code keeps: an Accept with no modal debounce
\* timer pending commits the text of the search box.
AcceptCommitsSettledText ==
    [][\A c \in Active : inputTimers[c] = <<>> => AcceptCommitsSearchText(c)]_vars

\* The query pill of the page filter bar of c has just been removed, and
\* the step that follows is not a keystroke in the page search bar.
AfterQueryPill(c) ==
    /\ IsOp("pagePill", c) /\ lastOp.arg.type = "query"
    /\ lastOp'.op # "pageInput"

\* C40: after the query pill of the page filter bar is removed the live
\* query stays empty until the user types again: a page debounce timer that
\* was pending at the click does not bring back the text typed before it.
C40_RemovedQueryStaysEmpty ==
    [][\A c \in Active : AfterQueryPill(c) => filters'[c].query = <<>>]_vars

\* The part of C40 that the code keeps: with no page debounce timer pending
\* the removed query stays empty.
RemovedQueryStaysEmptyAtRest ==
    [][\A c \in Active : (AfterQueryPill(c) /\ filterTimeout[c] = <<>>) => filters'[c].query = <<>>]_vars

=============================================================================
